---- MODULE Spec2Model ----
\* Verification model of the frame-timing core of
\* services/surfaceflinger/FrameTimeline/FrameTimeline.cpp.
\*
\* The module holds three state machines over disjoint groups of variables:
\*   SpecToken     TokenManager (token ledger with lazy eviction)
\*   SpecTimeline  FrameTimeline (pending present fences, bounded history)
\*   SpecJank      one DisplayFrame with one child SurfaceFrame (setters and
\*                 the two jank classifiers)
\* Each specification leaves the variables of the other two at their idle
\* values.
EXTENDS Integers, Sequences, FiniteSets, TLC

\* ---------------------------------------------------------------------------
\* Bounds of the model
\* ---------------------------------------------------------------------------
\* Largest value of the monotonic clock (systemTime) explored.
MaxTime == 7
\* Number of tokens generateTokenForPredictions may hand out.
MaxTokens == 3
\* Number of distinct prediction payloads (stand-ins for a TimelineItem).
MaxPayload == 2

\* The retention window. The model's time unit is 40 ms, so that the
\* 120 ms of TokenManager::kMaxRetentionTime (FrameTimeline.h) is 3 units.
kMaxRetentionTime == 3

\* FrameTimelineInfo::INVALID_VSYNC_ID; the first token is one above it.
INVALID_VSYNC_ID == -1

\* std::optional: nullopt is the empty sequence, a value x is <<x>>.
nullopt == <<>>
Some(x) == <<x>>

Min(a, b) == IF a <= b THEN a ELSE b
Max(a, b) == IF a >= b THEN a ELSE b
Abs(a) == IF a < 0 THEN -a ELSE a

VARIABLES
    \* --- TokenManager ---
    now,            \* systemTime(): the monotonic clock
    mCurrentToken,  \* TokenManager::mCurrentToken
    mPredictions,   \* TokenManager::mPredictions, in key (= issuance) order
    issued,         \* history: token -> [timestamp, predictions] of every token issued
    lastFlushTime,  \* history: flushTime of the latest flushTokens call (-1: none yet)
    tokenOp         \* history: the last TokenManager operation

tokenVars == <<now, mCurrentToken, mPredictions, issued, lastFlushTime, tokenOp>>

VARIABLES
    mMaxDisplayFrames,      \* FrameTimeline::mMaxDisplayFrames
    mDisplayFrames,         \* FrameTimeline::mDisplayFrames: frame ids, oldest first
    mPendingPresentFences,  \* FrameTimeline::mPendingPresentFences: [valid, frame]
    mCurrentDisplayFrame,   \* FrameTimeline::mCurrentDisplayFrame: a frame id
    displayFrame,           \* the live DisplayFrame objects, by frame id
    fenceSignalTime,        \* what getSignalTime() of each queued valid fence returns
    undefinedBehaviour,     \* TRUE once a call has run into undefined behaviour
    presentsSinceResize,    \* history: setSfPresent calls since construction / last resize
    lastFlush,              \* history: frames the latest flush classified, in call order
    timelineOp              \* history: the last FrameTimeline operation

timelineVars == <<mMaxDisplayFrames, mDisplayFrames, mPendingPresentFences,
                  mCurrentDisplayFrame, displayFrame, fenceSignalTime,
                  undefinedBehaviour, presentsSinceResize, lastFlush, timelineOp>>

VARIABLES
    thresholds,            \* JankClassificationThresholds given at construction
    surfaceFrame,          \* one SurfaceFrame (its members)
    owningDisplayFrame,    \* the DisplayFrame the SurfaceFrame was added to
    aborted,               \* TRUE once LOG_ALWAYS_FATAL has fired
    setPresentStateCalls,  \* history: number of setPresentState calls made
    firstSetPresentState,  \* history: what the SurfaceFrame stored after the first call
    jankReports,           \* history: the TimeStats::incrementJankyFrames calls
    acquireFenceCalls      \* history: the setAcquireFenceTime calls, with the queue time each found

jankVars == <<thresholds, surfaceFrame, owningDisplayFrame, aborted,
              setPresentStateCalls, firstSetPresentState, jankReports,
              acquireFenceCalls>>

VARIABLES
    timelineFrames,  \* the DisplayFrame objects, with their SurfaceFrames, by frame id
    historyIds,      \* FrameTimeline::mDisplayFrames of the dumped timeline: frame ids
    pendingIds,      \* FrameTimeline::mPendingPresentFences of it: frame ids
    currentId,       \* FrameTimeline::mCurrentDisplayFrame of it: a frame id
    onPresentLog,    \* history: the SurfaceFrame::onPresent calls of the latest setSfPresent
    surfaceFramesAdded,  \* history: number of addSurfaceFrame calls made
    dumpOp,          \* history: the latest dump call that returned since the last mutating call
    dumpCall,        \* the dump call in progress: its next SurfaceFrame call
    dumpResult,      \* the text the latest dump call appended to `result`
    dumpBaseTime     \* the local baseTime of the latest dump call

historyVars == <<timelineFrames, historyIds, pendingIds, currentId, onPresentLog,
                 surfaceFramesAdded, dumpOp, dumpCall, dumpResult, dumpBaseTime>>

VARIABLES
    mDisplayManagerPolicy,    \* RefreshRateConfigs::mDisplayManagerPolicy
    mOverridePolicy,          \* RefreshRateConfigs::mOverridePolicy (optional)
    mPrimaryRefreshRates,     \* RefreshRateConfigs::mPrimaryRefreshRates: config ids
    mAppRequestRefreshRates,  \* RefreshRateConfigs::mAppRequestRefreshRates: config ids
    policyOp,                 \* history: the last set*Policy call and its status
    acceptedDisplayManagerPolicy,  \* history: the last policy setDisplayManagerPolicy accepted
    acceptedOverridePolicy,   \* history: the argument of the last setOverridePolicy accepted
    acceptedWhileOverridden,  \* history: that display manager policy came during an override
    selectOp                  \* history: the getBestRefreshRate call made since the last
                              \* set*Policy call, with its result

policyVars == <<mDisplayManagerPolicy, mOverridePolicy, mPrimaryRefreshRates,
                mAppRequestRefreshRates, policyOp, acceptedDisplayManagerPolicy,
                acceptedOverridePolicy, acceptedWhileOverridden, selectOp>>

VARIABLES
    mCached,        \* AidlHalWrapper::mCapabilities, mSupportedEffects, mSupportedPrimitives
    cacheMutex,     \* m*Mutex of each cached query: the thread holding it, or 0
    vibratorPc,     \* where each thread is in its call of the wrapper
    halQueries,     \* history: the status of each query that reached the HAL
    queryReturns,   \* history: the values the wrapper returned as ok, per query
    contended,      \* history: the queries whose mutex was taken while another thread waited
    vibrations,     \* history: the HAL calls of on / performEffect / performComposedEffect
    vibratorCalls   \* history: the number of wrapper calls made

vibratorVars == <<mCached, cacheMutex, vibratorPc, halQueries, queryReturns, contended,
                  vibrations, vibratorCalls>>

VARIABLES
    coreLocks,     \* the mutexes of the timing core: the thread holding each, or 0
    corePc,        \* what each thread still has to lock and unlock in its call
    coreNestings   \* history: <<mutex held, mutex acquired>> of every nested acquisition

lockVars == <<coreLocks, corePc, coreNestings>>

VARIABLES
    mDiscardedFrames,      \* RegionSamplingThread: frames whose sampling was put off
    mSampleRequested,      \* RegionSamplingThread: threadMain has a sample to capture
    mVsyncListening,       \* SamplingOffsetCallback: the vsync source is enabled
    mPhaseIntervalSetting, \* SamplingOffsetCallback: "ZERO" or "SAMPLING"
    samplingLocks,         \* the thread holding each mutex, or NoThread
    samplingPc,            \* where each thread is
    samplingNestings,      \* history: <<mutex held, mutex acquired>> of nested acquisitions
    deferralsSinceSample,  \* history: deferrals for lack of time since the last sample request
    deferralsSinceReset    \* history: the same, since mDiscardedFrames was last set to 0

samplingVars ==
    <<mDiscardedFrames, mSampleRequested, mVsyncListening, mPhaseIntervalSetting, samplingLocks,
      samplingPc, samplingNestings, deferralsSinceSample, deferralsSinceReset>>

VARIABLES
    mNameToRegistrationCallback, \* ServiceManagerShim: name -> the (cb, waiter) pairs registered
    backendCallbacks,            \* the <<name, waiter>> registered with mUnifiedServiceManager
    createdWaiters,              \* history: who created waiter i, as [name, cb]
    shimOp,                      \* the last call of the shim that returned, with its status
    waitCall                     \* the waitForService call in progress or just returned

shimVars == <<mNameToRegistrationCallback, backendCallbacks, createdWaiters, shimOp, waitCall>>

\* What an operation of one component leaves alone: the other components.
exceptTokenVars == <<timelineVars, jankVars, historyVars, policyVars, vibratorVars, lockVars, samplingVars, shimVars>>
exceptTimelineVars == <<tokenVars, jankVars, historyVars, policyVars, vibratorVars, lockVars, samplingVars, shimVars>>
exceptJankVars == <<tokenVars, timelineVars, historyVars, policyVars, vibratorVars, lockVars, samplingVars, shimVars>>
exceptHistoryVars == <<tokenVars, timelineVars, jankVars, policyVars, vibratorVars, lockVars, samplingVars, shimVars>>
exceptPolicyVars == <<tokenVars, timelineVars, jankVars, historyVars, vibratorVars, lockVars, samplingVars, shimVars>>
exceptVibratorVars == <<tokenVars, timelineVars, jankVars, historyVars, policyVars, lockVars, samplingVars, shimVars>>
exceptLockVars == <<tokenVars, timelineVars, jankVars, historyVars, policyVars, vibratorVars, samplingVars, shimVars>>
exceptSamplingVars == <<tokenVars, timelineVars, jankVars, historyVars, policyVars, vibratorVars, lockVars, shimVars>>
exceptShimVars == <<tokenVars, timelineVars, jankVars, historyVars, policyVars, vibratorVars, lockVars, samplingVars>>

\* ---------------------------------------------------------------------------
\* TokenManager
\* ---------------------------------------------------------------------------
Payloads == 1..MaxPayload

\* A faulty variant of flushTokens: the comparison is > instead of >=, so an entry
\* whose age is exactly the window survives.
RECURSIVE flushTokensStrict(_, _)
flushTokensStrict(predictions, flushTime) ==
    IF predictions = <<>> THEN <<>>
    ELSE IF flushTime - Head(predictions).timestamp > kMaxRetentionTime
         THEN flushTokensStrict(Tail(predictions), flushTime)
         ELSE predictions

\* A faulty variant of flushTokens: only the oldest entry is examined.
flushTokensOnlyFirst(predictions, flushTime) ==
    IF predictions = <<>> THEN <<>>
    ELSE IF flushTime - Head(predictions).timestamp >= kMaxRetentionTime
         THEN Tail(predictions)
         ELSE predictions

\* TokenManager::flushTokens: walk the map from its first key, erase while
\* the entry is at least kMaxRetentionTime old, stop at the first that is not.
RECURSIVE flushTokens(_, _)
flushTokens(predictions, flushTime) ==
    IF predictions = <<>> THEN <<>>
    ELSE IF flushTime - Head(predictions).timestamp >= kMaxRetentionTime
         THEN flushTokens(Tail(predictions), flushTime)
         ELSE predictions

\* TokenManager::getPredictionsForToken: find(token) in the map.
getPredictionsForToken(token) ==
    IF \E i \in 1..Len(mPredictions) : mPredictions[i].token = token
    THEN LET i == CHOOSE j \in 1..Len(mPredictions) : mPredictions[j].token = token
         IN  Some(mPredictions[i].predictions)
    ELSE nullopt

TokenInit ==
    /\ now = 0
    /\ mCurrentToken = INVALID_VSYNC_ID + 1
    /\ mPredictions = <<>>
    /\ issued = <<>>
    /\ lastFlushTime = -1
    /\ tokenOp = "init"

\* TokenManager::generateTokenForPredictions. systemTime() is read twice:
\* once for the entry's timestamp and once, `delay` later, for the flush.
generateTokenForPredictions(predictions, delay) ==
    /\ mCurrentToken < MaxTokens
    /\ now + delay <= MaxTime
    /\ LET assignedToken == mCurrentToken
           entry == [token |-> assignedToken, timestamp |-> now,
                     predictions |-> predictions]
           flushTime == now + delay
       IN  /\ mCurrentToken' = mCurrentToken + 1
           /\ mPredictions' = flushTokens(Append(mPredictions, entry), flushTime)
           /\ issued' = Append(issued, entry)
           /\ lastFlushTime' = flushTime
           /\ now' = flushTime
    /\ tokenOp' = "generateTokenForPredictions"
    /\ UNCHANGED exceptTokenVars

\* The clock advances while the token manager is idle.
Tick ==
    /\ now < MaxTime
    /\ now' = now + 1
    /\ tokenOp' = "tick"
    /\ UNCHANGED <<mCurrentToken, mPredictions, issued, lastFlushTime>>
    /\ UNCHANGED exceptTokenVars

TokenNext ==
    \/ \E p \in Payloads, d \in 0..kMaxRetentionTime : generateTokenForPredictions(p, d)
    \/ Tick

\* --- Claims about the TokenManager -----------------------------------------

\* The tokens currently held by the ledger.
LedgerTokens == {mPredictions[i].token : i \in 1..Len(mPredictions)}

\* C1 (as stated): at every time, a lookup of an issued token returns its
\* predictions if and only if the token's age is below the retention window.
C1_LookupIffYoung ==
    \A i \in 1..Len(issued) :
        (getPredictionsForToken(issued[i].token) = Some(issued[i].predictions))
            <=> (now - issued[i].timestamp < kMaxRetentionTime)

\* C1 (amended): a lookup returns the token's predictions if and only if no
\* generateTokenForPredictions call has flushed at a time at which the token
\* was at least kMaxRetentionTime old; otherwise it returns nothing. A token
\* younger than the window is therefore always found, and an older one is
\* still found until the next token is issued.
C1_LookupIffNotFlushed ==
    \A i \in 1..Len(issued) :
        LET found == getPredictionsForToken(issued[i].token)
        IN  /\ found \in {Some(issued[i].predictions), nullopt}
            /\ (found = Some(issued[i].predictions))
                   <=> (lastFlushTime - issued[i].timestamp < kMaxRetentionTime)
            /\ (now - issued[i].timestamp < kMaxRetentionTime)
                   => found = Some(issued[i].predictions)

\* Witness for C1: one token has been evicted, and another one has aged out
\* of the window but is still returned because nothing was issued since.
C1_Witness ==
    /\ \E i \in 1..Len(issued) : getPredictionsForToken(issued[i].token) = nullopt
    /\ \E i \in 1..Len(issued) :
        /\ now - issued[i].timestamp >= kMaxRetentionTime
        /\ getPredictionsForToken(issued[i].token) = Some(issued[i].predictions)

\* C2: right after generateTokenForPredictions returns, the ledger holds
\* exactly the issued tokens whose age is below the retention window.
C2_LedgerExactAfterIssue ==
    tokenOp = "generateTokenForPredictions" =>
        LedgerTokens = {issued[i].token : i \in
                          {j \in 1..Len(issued) :
                              now - issued[j].timestamp < kMaxRetentionTime}}

\* Witness for C2: an issue call that evicted at least two tokens and kept
\* at least one.
C2_Witness ==
    /\ tokenOp = "generateTokenForPredictions"
    /\ Len(mPredictions) >= 1
    /\ Len(issued) >= Len(mPredictions) + 2

\* ---------------------------------------------------------------------------
\* FrameTimeline: pending present fences and the bounded history
\* ---------------------------------------------------------------------------
\* Number of display frames setSfPresent may submit.
MaxFrames == 5
\* Largest argument of setMaxDisplayFrames explored.
MaxDepth == 3
\* The times the compositor passes as sfPresentTime, and the times at which
\* present fences signal.
SfPresentTimes == {2}
SignalTimes == {3}
\* FrameTimeline::kDefaultMaxDisplayFrames (64 in FrameTimeline.h), scaled
\* down so that eviction from a default-sized history is reachable.
kDefaultMaxDisplayFrames == 2

\* Fence::SIGNAL_TIME_INVALID, and Fence::SIGNAL_TIME_PENDING (INT64_MAX in
\* the code; the largest integer TLC handles stands in for it).
SIGNAL_TIME_INVALID == -1
SIGNAL_TIME_PENDING == 2147483647


\* DisplayFrame::DisplayFrame: actuals are a zero TimelineItem.
NewDisplayFrame == [endTime |-> 0, presentTime |-> 0, onPresentCalls |-> 0]

\* The FrameTimeline object as one value, so that its methods are operators
\* from object to object.
ThisTimeline ==
    [mMaxDisplayFrames |-> mMaxDisplayFrames,
     mDisplayFrames |-> mDisplayFrames,
     mPendingPresentFences |-> mPendingPresentFences,
     mCurrentDisplayFrame |-> mCurrentDisplayFrame,
     displayFrame |-> displayFrame,
     classified |-> <<>>]

\* vector::erase(begin() + i), 1-based.
Erase(seq, i) == SubSeq(seq, 1, i - 1) \o SubSeq(seq, i + 1, Len(seq))

\* DisplayFrame::setActualEndTime on the current frame.
setActualEndTime(ft, actualEndTime) ==
    [ft EXCEPT !.displayFrame[ft.mCurrentDisplayFrame].endTime = actualEndTime]

\* DisplayFrame::onPresent, as far as the queue and the history see it:
\* the present time is stored and the classification has run once more.
onPresentRecorded(ft, id, signalTime) ==
    [ft EXCEPT !.displayFrame[id].presentTime = signalTime,
               !.displayFrame[id].onPresentCalls = @ + 1,
               !.classified = Append(@, id)]

\* What the loop body of flushPendingPresentFences reads for entry e:
\* SIGNAL_TIME_INVALID for a null or invalid fence, getSignalTime() otherwise.
SignalTimeOf(e, signal) ==
    IF e.valid THEN signal[e.frame] ELSE SIGNAL_TIME_INVALID

\* A faulty variant of flushPendingPresentFences: the scan stops at the first entry
\* whose fence is pending (the queue is advanced from the front only).
RECURSIVE FlushFrontOnlyFrom(_, _, _)
FlushFrontOnlyFrom(i, ft, signal) ==
    IF i > Len(ft.mPendingPresentFences) THEN ft
    ELSE LET e == ft.mPendingPresentFences[i]
             signalTime == SignalTimeOf(e, signal)
         IN  IF e.valid /\ signalTime = SIGNAL_TIME_PENDING
             THEN ft
             ELSE LET presented == IF signalTime # SIGNAL_TIME_INVALID
                                   THEN onPresentRecorded(ft, e.frame, signalTime)
                                   ELSE ft
                  IN  FlushFrontOnlyFrom(i,
                          [presented EXCEPT !.mPendingPresentFences = Erase(@, i)],
                          signal)

flushFrontOnly(ft, signal) == FlushFrontOnlyFrom(1, ft, signal)

\* A faulty variant of flushPendingPresentFences: the `continue` is missing, so an
\* entry whose fence is pending is classified with SIGNAL_TIME_PENDING and
\* erased.
RECURSIVE FlushNoContinueFrom(_, _, _)
FlushNoContinueFrom(i, ft, signal) ==
    IF i > Len(ft.mPendingPresentFences) THEN ft
    ELSE LET e == ft.mPendingPresentFences[i]
             signalTime == SignalTimeOf(e, signal)
             presented == IF signalTime # SIGNAL_TIME_INVALID
                          THEN onPresentRecorded(ft, e.frame, signalTime)
                          ELSE ft
         IN  FlushNoContinueFrom(i,
                 [presented EXCEPT !.mPendingPresentFences = Erase(@, i)],
                 signal)

flushNoContinue(ft, signal) == FlushNoContinueFrom(1, ft, signal)

\* A faulty variant of flushPendingPresentFences: an entry without a signal
\* time (null or invalid fence, or an invalid signal time) is skipped like a
\* pending one and stays in the queue.
RECURSIVE FlushKeepsInvalidFrom(_, _, _)
FlushKeepsInvalidFrom(i, ft, signal) ==
    IF i > Len(ft.mPendingPresentFences) THEN ft
    ELSE LET e == ft.mPendingPresentFences[i]
             signalTime == SignalTimeOf(e, signal)
         IN  IF signalTime \in {SIGNAL_TIME_PENDING, SIGNAL_TIME_INVALID}
             THEN FlushKeepsInvalidFrom(i + 1, ft, signal)
             ELSE FlushKeepsInvalidFrom(i,
                      [onPresentRecorded(ft, e.frame, signalTime)
                           EXCEPT !.mPendingPresentFences = Erase(@, i)],
                      signal)

flushKeepsInvalid(ft, signal) == FlushKeepsInvalidFrom(1, ft, signal)

\* The loop of flushPendingPresentFences from index i (1-based). A pending
\* fence is skipped (continue: i + 1); any other entry is erased at i and the
\* index stays (--i then i++), after onPresent when the time is not invalid.
RECURSIVE FlushFrom(_, _, _)
FlushFrom(i, ft, signal) ==
    IF i > Len(ft.mPendingPresentFences) THEN ft
    ELSE LET e == ft.mPendingPresentFences[i]
             signalTime == SignalTimeOf(e, signal)
         IN  IF e.valid /\ signalTime = SIGNAL_TIME_PENDING
             THEN FlushFrom(i + 1, ft, signal)
             ELSE LET presented == IF signalTime # SIGNAL_TIME_INVALID
                                   THEN onPresentRecorded(ft, e.frame, signalTime)
                                   ELSE ft
                  IN  FlushFrom(i,
                          [presented EXCEPT !.mPendingPresentFences = Erase(@, i)],
                          signal)

\* FrameTimeline::flushPendingPresentFences.
flushPendingPresentFences(ft, signal) == FlushFrom(1, ft, signal)

\* A faulty variant of the pop loop of finalizeCurrentDisplayFrame: > instead of >=.
RECURSIVE PopOlderFramesOffByOne(_, _)
PopOlderFramesOffByOne(frames, maxDisplayFrames) ==
    IF Len(frames) > maxDisplayFrames
    THEN PopOlderFramesOffByOne(Tail(frames), maxDisplayFrames)
    ELSE frames

\* The pop loop of finalizeCurrentDisplayFrame, for a positive depth:
\* while (size() >= mMaxDisplayFrames) pop_front().
RECURSIVE PopOlderFrames(_, _)
PopOlderFrames(frames, maxDisplayFrames) ==
    IF Len(frames) >= maxDisplayFrames
    THEN PopOlderFrames(Tail(frames), maxDisplayFrames)
    ELSE frames

\* With depth 0 the loop condition size() >= 0 never fails, and pop_front()
\* is reached on an empty deque: undefined behaviour, the call does not
\* return normally.
FinalizeIsUndefined(ft) == ft.mMaxDisplayFrames = 0

\* A faulty variant of finalizeCurrentDisplayFrame: the frame is handed to the
\* history only when its present fence has been resolved.
finalizeOnlyPresented(ft, newId) ==
    [ft EXCEPT
        !.mDisplayFrames =
            IF ft.displayFrame[ft.mCurrentDisplayFrame].presentTime # 0
            THEN Append(PopOlderFrames(@, ft.mMaxDisplayFrames), ft.mCurrentDisplayFrame)
            ELSE @,
        !.mCurrentDisplayFrame = newId,
        !.displayFrame = [id \in DOMAIN @ \cup {newId} |->
                             IF id = newId THEN NewDisplayFrame ELSE @[id]]]

\* FrameTimeline::finalizeCurrentDisplayFrame (when defined): pop older
\* frames, push the current one, make a fresh current frame (newId).
finalizeCurrentDisplayFrame(ft, newId) ==
    [ft EXCEPT
        !.mDisplayFrames =
            Append(PopOlderFrames(@, ft.mMaxDisplayFrames), ft.mCurrentDisplayFrame),
        !.mCurrentDisplayFrame = newId,
        !.displayFrame = [id \in DOMAIN @ \cup {newId} |->
                             IF id = newId THEN NewDisplayFrame ELSE @[id]]]

\* A faulty variant of the clearing done by setMaxDisplayFrames: the history is
\* trimmed to its newest `size` frames instead of being cleared.
trimmedDisplayFrames(frames, size) ==
    SubSeq(frames, Len(frames) - Min(Len(frames), size) + 1, Len(frames))

\* mDisplayFrames.clear() in setMaxDisplayFrames.
clearedDisplayFrames(frames, size) == <<>>

\* The shared_ptr-owned objects still referenced after a call: frames in the
\* history, in the pending queue, and the current frame.
LiveFrames(ft) ==
    {ft.mDisplayFrames[i] : i \in 1..Len(ft.mDisplayFrames)}
        \cup {ft.mPendingPresentFences[i].frame : i \in 1..Len(ft.mPendingPresentFences)}
        \cup {ft.mCurrentDisplayFrame}

PendingFrames(pending) == {pending[i].frame : i \in 1..Len(pending)}

\* Write the object back to the variables; unreferenced frames are destroyed.
Store(ft, signal) ==
    /\ mMaxDisplayFrames' = ft.mMaxDisplayFrames
    /\ mDisplayFrames' = ft.mDisplayFrames
    /\ mPendingPresentFences' = ft.mPendingPresentFences
    /\ mCurrentDisplayFrame' = ft.mCurrentDisplayFrame
    /\ displayFrame' = [id \in LiveFrames(ft) |-> ft.displayFrame[id]]
    /\ fenceSignalTime' =
           [id \in {ft.mPendingPresentFences[i].frame :
                       i \in {j \in 1..Len(ft.mPendingPresentFences) :
                                 ft.mPendingPresentFences[j].valid}}
               |-> signal[id]]

\* FrameTimeline::FrameTimeline: default depth, one fresh current frame.
TimelineInit ==
    /\ mMaxDisplayFrames = kDefaultMaxDisplayFrames
    /\ mDisplayFrames = <<>>
    /\ mPendingPresentFences = <<>>
    /\ mCurrentDisplayFrame = 1
    /\ displayFrame = [id \in {1} |-> NewDisplayFrame]
    /\ fenceSignalTime = <<>>
    /\ undefinedBehaviour = FALSE
    /\ presentsSinceResize = 0
    /\ lastFlush = <<>>
    /\ timelineOp = [op |-> "init"]

\* FrameTimeline::setSfPresent(sfPresentTime, presentFence). The fence is
\* null/invalid (valid = FALSE) or valid; a valid fence that has already
\* signalled when it is handed in reports `signalTime`.
setSfPresent(sfPresentTime, valid, signalTime) ==
    /\ ~undefinedBehaviour
    /\ mCurrentDisplayFrame <= MaxFrames
    /\ LET ended == setActualEndTime(ThisTimeline, sfPresentTime)
           queued == [ended EXCEPT !.mPendingPresentFences =
                        Append(@, [valid |-> valid, frame |-> mCurrentDisplayFrame])]
           signal == [id \in DOMAIN fenceSignalTime \cup {mCurrentDisplayFrame} |->
                        IF id = mCurrentDisplayFrame THEN signalTime
                        ELSE fenceSignalTime[id]]
           flushed == flushPendingPresentFences(queued, signal)
       IN  /\ lastFlush' = flushed.classified
           /\ IF FinalizeIsUndefined(flushed)
              THEN /\ undefinedBehaviour' = TRUE
                   /\ Store(flushed, signal)
              ELSE /\ undefinedBehaviour' = FALSE
                   /\ Store(finalizeCurrentDisplayFrame(flushed, mCurrentDisplayFrame + 1), signal)
    /\ presentsSinceResize' = presentsSinceResize + 1
    /\ timelineOp' = [op |-> "setSfPresent", valid |-> valid, signalTime |-> signalTime]
    /\ UNCHANGED exceptTimelineVars

\* The environment: a valid fence still pending in the queue signals. Its
\* getSignalTime() then reports a time, or SIGNAL_TIME_INVALID on an error.
FenceSignals(id, signalTime) ==
    /\ ~undefinedBehaviour
    /\ id \in DOMAIN fenceSignalTime
    /\ fenceSignalTime[id] = SIGNAL_TIME_PENDING
    /\ fenceSignalTime' = [fenceSignalTime EXCEPT ![id] = signalTime]
    /\ timelineOp' = [op |-> "fenceSignals"]
    /\ UNCHANGED <<mMaxDisplayFrames, mDisplayFrames, mPendingPresentFences,
                   mCurrentDisplayFrame, displayFrame, undefinedBehaviour,
                   presentsSinceResize, lastFlush>>
    /\ UNCHANGED exceptTimelineVars

\* FrameTimeline::setMaxDisplayFrames(size): both containers are cleared.
setMaxDisplayFrames(size) ==
    /\ ~undefinedBehaviour
    /\ Store([ThisTimeline EXCEPT
                 !.mDisplayFrames = clearedDisplayFrames(@, size),
                 !.mPendingPresentFences = <<>>,
                 !.mMaxDisplayFrames = size],
             fenceSignalTime)
    /\ presentsSinceResize' = 0
    /\ timelineOp' = [op |-> "setMaxDisplayFrames", size |-> size,
                      oldSize |-> mMaxDisplayFrames, oldHistory |-> Len(mDisplayFrames)]
    /\ UNCHANGED <<undefinedBehaviour, lastFlush>>
    /\ UNCHANGED exceptTimelineVars

TimelineNext ==
    \/ \E t \in SfPresentTimes,
          s \in SignalTimes \cup {SIGNAL_TIME_PENDING, SIGNAL_TIME_INVALID} :
           setSfPresent(t, TRUE, s)
    \/ \E t \in SfPresentTimes : setSfPresent(t, FALSE, SIGNAL_TIME_INVALID)
    \/ \E id \in 1..MaxFrames, s \in SignalTimes \cup {SIGNAL_TIME_INVALID} :
           FenceSignals(id, s)
    \/ \E size \in 0..MaxDepth : setMaxDisplayFrames(size)

\* ---------------------------------------------------------------------------
\* SurfaceFrame and DisplayFrame: setters and jank classification
\* ---------------------------------------------------------------------------
\* Times are small integers; the display's predicted present time is 8.
\* The present fence signals within MaxDelta of it.
MaxDelta == 4
\* Largest number of setPresentState calls made on the SurfaceFrame.
MaxSetPresentStateCalls == 2

\* TimelineItem(): all times zero.
ZeroTimelineItem == [startTime |-> 0, endTime |-> 0, presentTime |-> 0]

\* Inputs of the scenario.
ThresholdChoices ==
    {[presentThreshold |-> 1, deadlineThreshold |-> d, startThreshold |-> 1] : d \in {1}}
DisplayPredictions == [startTime |-> 2, endTime |-> 4, presentTime |-> 8]
SurfacePredictionChoices ==
    {[startTime |-> 1, endTime |-> 3, presentTime |-> p] : p \in {4, 10}}
PeriodChoices == {4}
WakeUpTimes == {2, 5}
DisplayEndTimes == {4, 6}
PresentFenceTimes == (8 - MaxDelta)..(8 + MaxDelta)
StartTimes == {1}
QueueTimes == {2, 6}
AcquireFenceTimes == {3}
LatchTimes == {0, 2, 3}
PresentStates == {"Unknown", "Presented", "Dropped"}

\* JankType is a bitmask in the code; the model keeps the set of its bits,
\* so that JankType::None is {} and |= is union.
JankNone == {}

\* SurfaceFrame::SurfaceFrame, with the member defaults of FrameTimeline.h.
NewSurfaceFrame(predictionState, predictions) ==
    [mPresentState |-> "Unknown",
     mPredictionState |-> predictionState,
     mPredictions |-> predictions,
     mActuals |-> ZeroTimelineItem,
     mActualQueueTime |-> 0,
     mLastLatchTime |-> 0,
     mJankType |-> JankNone,
     mFramePresentMetadata |-> "UnknownPresent",
     mFrameReadyMetadata |-> "UnknownFinish"]

\* FrameTimeline::createSurfaceFrameForToken: no token -> None with zero
\* predictions; token found -> Valid with its predictions; token not found
\* -> Expired with zero predictions.
createSurfaceFrameForToken(hasToken, predictions) ==
    IF ~hasToken THEN NewSurfaceFrame("None", ZeroTimelineItem)
    ELSE IF predictions # nullopt THEN NewSurfaceFrame("Valid", predictions[1])
    ELSE NewSurfaceFrame("Expired", ZeroTimelineItem)

\* DisplayFrame::DisplayFrame, with the member defaults of FrameTimeline.h.
\* armed and onPresentCalls record which calls have been made.
NewOwningDisplayFrame ==
    [mPredictionState |-> "None",
     mSurfaceFlingerPredictions |-> ZeroTimelineItem,
     mSurfaceFlingerActuals |-> ZeroTimelineItem,
     mRefreshRatePeriod |-> 0,
     mJankType |-> JankNone,
     mFramePresentMetadata |-> "UnknownPresent",
     mFrameReadyMetadata |-> "UnknownFinish",
     mFrameStartMetadata |-> "UnknownStart",
     armed |-> FALSE,
     onPresentCalls |-> 0]

\* A faulty variant of FramePresentMetadataOf: >= instead of >.
FramePresentMetadataInclusive(presentDelta, presentThreshold) ==
    IF Abs(presentDelta) >= presentThreshold
    THEN IF presentDelta > 0 THEN "LatePresent" ELSE "EarlyPresent"
    ELSE "OnTimePresent"

\* The present metadata both classifiers compute from presentDelta.
FramePresentMetadataOf(presentDelta, presentThreshold) ==
    IF Abs(presentDelta) > presentThreshold
    THEN IF presentDelta > 0 THEN "LatePresent" ELSE "EarlyPresent"
    ELSE "OnTimePresent"

\* The finish metadata both classifiers compute from deadlineDelta.
FrameReadyMetadataOf(deadlineDelta, deadlineThreshold) ==
    IF deadlineDelta > deadlineThreshold THEN "LateFinish" ELSE "OnTimeFinish"

\* A faulty variant of IsVsyncFactor: presentThreshold itself counts as near 0.
IsVsyncFactorInclusiveBelow(deltaToVsync, period, presentThreshold) ==
    \/ deltaToVsync <= presentThreshold
    \/ deltaToVsync >= period - presentThreshold

\* A faulty variant of IsVsyncFactor: period - presentThreshold itself does
\* not count as near the period.
IsVsyncFactorStrictAbove(deltaToVsync, period, presentThreshold) ==
    \/ deltaToVsync < presentThreshold
    \/ deltaToVsync > period - presentThreshold

\* "Delta factor of vsync": deltaToVsync is within presentThreshold of 0 or
\* of the full period.
IsVsyncFactor(deltaToVsync, period, presentThreshold) ==
    \/ deltaToVsync < presentThreshold
    \/ deltaToVsync >= period - presentThreshold

\* A faulty variant of BufferStuffingJank: the latch time is not checked to
\* be known.
BufferStuffingJankUnknownLatch(jankType, lastLatchTime, predictedEnd) ==
    IF predictedEnd <= lastLatchTime \/ lastLatchTime = 0
    THEN jankType \cup {"BufferStuffing"}
    ELSE jankType

\* The buffer stuffing test of a frame that presents late.
BufferStuffingJank(jankType, lastLatchTime, predictedEnd) ==
    IF lastLatchTime # 0 /\ predictedEnd <= lastLatchTime
    THEN jankType \cup {"BufferStuffing"}
    ELSE jankType

\* A faulty variant of LateFinishLatePresentJank: the app is blamed as well
\* when the display frame is janky.
LateFinishLatePresentJankAlwaysApp(jankType, displayFrameJankType) ==
    jankType \cup {"AppDeadlineMissed"} \cup displayFrameJankType

\* "Finish late, Present late": the app's fault if the display frame is not
\* janky, the display frame's jank otherwise.
LateFinishLatePresentJank(jankType, displayFrameJankType) ==
    IF displayFrameJankType = JankNone
    THEN jankType \cup {"AppDeadlineMissed"}
    ELSE jankType \cup displayFrameJankType

\* The decision tree of SurfaceFrame::onPresent for a Valid frame: the new
\* value of mJankType, whose previous value is jankType.
SurfaceJankType(jankType, present, ready, deltaToVsync, period, presentThreshold, lastLatchTime, predictedEnd, displayFrameJankType) ==
    IF present = "OnTimePresent" THEN JankNone
    ELSE IF present = "EarlyPresent"
    THEN IF ready = "OnTimeFinish"
         THEN IF IsVsyncFactor(deltaToVsync, period, presentThreshold)
              THEN {"SurfaceFlingerScheduling"}
              ELSE {"PredictionError"}
         ELSE IF ready = "LateFinish" THEN {"Unknown"}
         ELSE jankType
    ELSE LET stuffed == BufferStuffingJank(jankType, lastLatchTime, predictedEnd)
         IN  IF ready = "OnTimeFinish"
             THEN IF displayFrameJankType # JankNone
                  THEN stuffed \cup displayFrameJankType
                  ELSE IF IsVsyncFactor(deltaToVsync, period, presentThreshold)
                       THEN stuffed \cup {"SurfaceFlingerScheduling"}
                       ELSE stuffed \cup {"PredictionError"}
             ELSE IF ready = "LateFinish"
             THEN LateFinishLatePresentJank(stuffed, displayFrameJankType)
             ELSE stuffed

\* The mutexes of the timing core.
SurfaceFrameMutex == "SurfaceFrame::mMutex"
FrameTimelineMutex == "FrameTimeline::mMutex"

\* A faulty variant of LocksHeldInOnPresent: the lock is released before
\* TimeStats is called.
LocksReleasedInOnPresent == {}

\* The locks SurfaceFrame::onPresent itself holds when it calls
\* TimeStats::incrementJankyFrames: its scoped_lock on mMutex lives until the
\* function returns.
LocksHeldInOnPresent == {SurfaceFrameMutex}

\* A faulty variant of ReturnsUntouched: only a Dropped frame is skipped.
ReturnsUntouchedOnlyDropped(sf) == sf.mPresentState = "Dropped"

\* The early return of SurfaceFrame::onPresent: "No need to update dropped
\* buffers".
ReturnsUntouched(sf) == sf.mPresentState # "Presented"

\* A faulty variant of OnPresentWithoutToken: the frame is classified
\* Unknown, as an Expired one is.
OnPresentWithoutTokenClassified(s1) ==
    [frame |-> [s1 EXCEPT !.mJankType = {"Unknown"}],
     reports |-> <<[jankType |-> {"Unknown"}, appDeadlineDelta |-> -1,
                    locksHeld |-> LocksHeldInOnPresent]>>]

\* SurfaceFrame::onPresent for PredictionState::None, after the present time
\* has been stored in s1: "Cannot do jank classification on frames that
\* don't have a token".
OnPresentWithoutToken(s1) == [frame |-> s1, reports |-> <<>>]

\* A faulty variant of OnPresentExpired: the frame is blamed on the app and
\* the deadline delta is computed from the zero predictions.
OnPresentExpiredBlamesApp(s1) ==
    [frame |-> [s1 EXCEPT !.mJankType = {"AppDeadlineMissed"},
                          !.mFramePresentMetadata = "LatePresent",
                          !.mFrameReadyMetadata = "LateFinish"],
     reports |-> <<[jankType |-> {"AppDeadlineMissed"},
                    appDeadlineDelta |-> s1.mActuals.endTime - s1.mPredictions.endTime,
                    locksHeld |-> LocksHeldInOnPresent]>>]

\* SurfaceFrame::onPresent for PredictionState::Expired, after the present
\* time has been stored in s1; kAppDeadlineDelta is -1.
OnPresentExpired(s1) ==
    [frame |-> [s1 EXCEPT !.mJankType = {"Unknown"},
                          !.mFramePresentMetadata = "UnknownPresent",
                          !.mFrameReadyMetadata = "UnknownFinish"],
     reports |-> <<[jankType |-> {"Unknown"}, appDeadlineDelta |-> -1,
                    locksHeld |-> LocksHeldInOnPresent]>>]

\* SurfaceFrame::onPresent. The result is the frame and the
\* incrementJankyFrames calls made, each with the locks onPresent holds
\* while it makes the call.
SurfaceFrameOnPresent(sf, presentTime, displayFrameJankType, period, thr) ==
    IF ReturnsUntouched(sf)
    THEN [frame |-> sf, reports |-> <<>>]
    ELSE LET s1 == [sf EXCEPT !.mActuals.presentTime = presentTime]
         IN  IF s1.mPredictionState = "None"
             THEN OnPresentWithoutToken(s1)
             ELSE IF s1.mPredictionState = "Expired"
             THEN OnPresentExpired(s1)
             ELSE LET presentDelta == s1.mActuals.presentTime - s1.mPredictions.presentTime
                      deadlineDelta == s1.mActuals.endTime - s1.mPredictions.endTime
                      deltaToVsync == Abs(presentDelta) % period
                      ready == FrameReadyMetadataOf(deadlineDelta, thr.deadlineThreshold)
                      present == FramePresentMetadataOf(presentDelta, thr.presentThreshold)
                      jank == SurfaceJankType(s1.mJankType, present, ready, deltaToVsync,
                                              period, thr.presentThreshold,
                                              s1.mLastLatchTime, s1.mPredictions.endTime,
                                              displayFrameJankType)
                  IN  [frame |-> [s1 EXCEPT !.mJankType = jank,
                                            !.mFramePresentMetadata = present,
                                            !.mFrameReadyMetadata = ready],
                       reports |-> <<[jankType |-> jank,
                                      appDeadlineDelta |-> deadlineDelta,
                                      locksHeld |-> LocksHeldInOnPresent]>>]

\* A faulty variant of DisplayJankType: the tree of the surface classifier is used,
\* in which a frame that finishes late and presents early is Unknown.
DisplayJankTypeLikeSurface(jankType, present, ready, deltaToVsync, period, presentThreshold) ==
    IF present = "OnTimePresent" THEN jankType
    ELSE IF present = "EarlyPresent"
    THEN IF ready = "OnTimeFinish"
         THEN IF IsVsyncFactor(deltaToVsync, period, presentThreshold)
              THEN {"SurfaceFlingerScheduling"}
              ELSE {"PredictionError"}
         ELSE {"Unknown"}
    ELSE IF present = "LatePresent"
    THEN IF ready = "OnTimeFinish"
         THEN IF IsVsyncFactor(deltaToVsync, period, presentThreshold)
              THEN {"DisplayHAL"}
              ELSE {"PredictionError"}
         ELSE IF ready = "LateFinish" THEN {"SurfaceFlingerCpuDeadlineMissed"}
         ELSE {"Unknown"}
    ELSE {"Unknown"}

\* A faulty variant of DisplayJankType: a late present is the display HAL's
\* fault whenever deltaToVsync is a factor of vsync, also after a late finish.
DisplayJankTypeLateBlamesHal(jankType, present, ready, deltaToVsync, period, presentThreshold) ==
    IF present = "OnTimePresent" THEN jankType
    ELSE IF present = "EarlyPresent"
    THEN IF ready = "OnTimeFinish"
         THEN IF IsVsyncFactor(deltaToVsync, period, presentThreshold)
              THEN {"SurfaceFlingerScheduling"}
              ELSE {"PredictionError"}
         ELSE IF ready = "LateFinish" THEN {"SurfaceFlingerScheduling"}
         ELSE {"Unknown"}
    ELSE IF present = "LatePresent"
    THEN IF IsVsyncFactor(deltaToVsync, period, presentThreshold)
         THEN {"DisplayHAL"}
         ELSE IF ready = "OnTimeFinish" THEN {"PredictionError"}
         ELSE IF ready = "LateFinish" THEN {"SurfaceFlingerCpuDeadlineMissed"}
         ELSE {"Unknown"}
    ELSE {"Unknown"}

\* The decision tree of DisplayFrame::onPresent: the new value of mJankType,
\* whose previous value is jankType (kept when the present is on time).
DisplayJankType(jankType, present, ready, deltaToVsync, period, presentThreshold) ==
    IF present = "OnTimePresent" THEN jankType
    ELSE IF present = "EarlyPresent"
    THEN IF ready = "OnTimeFinish"
         THEN IF IsVsyncFactor(deltaToVsync, period, presentThreshold)
              THEN {"SurfaceFlingerScheduling"}
              ELSE {"PredictionError"}
         ELSE IF ready = "LateFinish" THEN {"SurfaceFlingerScheduling"}
         ELSE {"Unknown"}
    ELSE IF present = "LatePresent"
    THEN IF ready = "OnTimeFinish"
         THEN IF IsVsyncFactor(deltaToVsync, period, presentThreshold)
              THEN {"DisplayHAL"}
              ELSE {"PredictionError"}
         ELSE IF ready = "LateFinish" THEN {"SurfaceFlingerCpuDeadlineMissed"}
         ELSE {"Unknown"}
    ELSE {"Unknown"}

\* DisplayFrame::onSfWakeUp.
onSfWakeUp(df, period, predictions, wakeUpTime) ==
    [df EXCEPT
        !.mRefreshRatePeriod = period,
        !.mPredictionState = IF predictions = nullopt THEN "Expired" ELSE "Valid",
        !.mSurfaceFlingerPredictions = IF predictions = nullopt THEN @ ELSE predictions[1],
        !.mSurfaceFlingerActuals.startTime = wakeUpTime,
        !.armed = TRUE]

\* DisplayFrame::onPresent up to the loop over the surface frames.
DisplayFrameOnPresent(df, signalTime, thr) ==
    LET d1 == [df EXCEPT !.mSurfaceFlingerActuals.presentTime = signalTime]
        presentDelta == d1.mSurfaceFlingerActuals.presentTime
                            - d1.mSurfaceFlingerPredictions.presentTime
        deadlineDelta == d1.mSurfaceFlingerActuals.endTime
                            - d1.mSurfaceFlingerPredictions.endTime
        deltaToVsync == Abs(presentDelta) % d1.mRefreshRatePeriod
        present == FramePresentMetadataOf(presentDelta, thr.presentThreshold)
        ready == FrameReadyMetadataOf(deadlineDelta, thr.deadlineThreshold)
        startDelta == d1.mSurfaceFlingerActuals.startTime
                          - d1.mSurfaceFlingerPredictions.startTime
        start == IF Abs(startDelta) > thr.startThreshold
                 THEN IF startDelta > 0 THEN "LateStart" ELSE "EarlyStart"
                 ELSE d1.mFrameStartMetadata
    IN  [d1 EXCEPT !.mFramePresentMetadata = present,
                   !.mFrameReadyMetadata = ready,
                   !.mFrameStartMetadata = start,
                   !.mJankType = DisplayJankType(@, present, ready, deltaToVsync,
                                                 d1.mRefreshRatePeriod,
                                                 thr.presentThreshold),
                   !.onPresentCalls = @ + 1]

\* The locks FrameTimeline::setSfPresent holds while it runs
\* flushPendingPresentFences, and with it every onPresent: its scoped_lock
\* on mMutex lives until the function returns.
LocksHeldInSetSfPresent == {FrameTimelineMutex}

\* incrementJankyFrames calls made by a callee, seen from a caller that
\* holds the locks held: the calling thread holds both sets.
CalledHolding(held, reports) ==
    [i \in 1..Len(reports) |-> [reports[i] EXCEPT !.locksHeld = @ \cup held]]

\* The SurfaceFrame is created and added to a fresh DisplayFrame.
JankInit ==
    /\ thresholds \in ThresholdChoices
    /\ \E hasToken \in BOOLEAN,
          predictions \in {nullopt} \cup {Some(p) : p \in SurfacePredictionChoices} :
           /\ ~hasToken => predictions = nullopt
           /\ surfaceFrame = createSurfaceFrameForToken(hasToken, predictions)
    /\ owningDisplayFrame = NewOwningDisplayFrame
    /\ aborted = FALSE
    /\ setPresentStateCalls = 0
    /\ firstSetPresentState = <<>>
    /\ jankReports = <<>>
    /\ acquireFenceCalls = <<>>

\* SurfaceFrame::setActualStartTime on the members of a SurfaceFrame.
SurfaceFrameSetActualStartTime(sf, actualStartTime) ==
    [sf EXCEPT !.mActuals.startTime = actualStartTime]

\* SurfaceFrame::setActualStartTime.
setActualStartTime(actualStartTime) ==
    /\ ~aborted
    /\ surfaceFrame.mActuals.startTime = 0
    /\ surfaceFrame' = SurfaceFrameSetActualStartTime(surfaceFrame, actualStartTime)
    /\ UNCHANGED <<thresholds, owningDisplayFrame, aborted, setPresentStateCalls,
                   firstSetPresentState, jankReports, acquireFenceCalls>>
    /\ UNCHANGED exceptJankVars

\* SurfaceFrame::setActualQueueTime.
setActualQueueTime(actualQueueTime) ==
    /\ ~aborted
    /\ surfaceFrame.mActualQueueTime = 0
    /\ surfaceFrame' = [surfaceFrame EXCEPT !.mActualQueueTime = actualQueueTime]
    /\ UNCHANGED <<thresholds, owningDisplayFrame, aborted, setPresentStateCalls,
                   firstSetPresentState, jankReports, acquireFenceCalls>>
    /\ UNCHANGED exceptJankVars

\* A faulty variant of ActualEndTimeOf: the queue time is not consulted.
ActualEndTimeOfFenceOnly(acquireFenceTime, actualQueueTime) == acquireFenceTime

\* std::max(acquireFenceTime, mActualQueueTime).
ActualEndTimeOf(acquireFenceTime, actualQueueTime) == Max(acquireFenceTime, actualQueueTime)

\* SurfaceFrame::setAcquireFenceTime.
setAcquireFenceTime(acquireFenceTime) ==
    /\ ~aborted
    /\ surfaceFrame.mActuals.endTime = 0
    /\ surfaceFrame' = [surfaceFrame EXCEPT
                           !.mActuals.endTime =
                               ActualEndTimeOf(acquireFenceTime, surfaceFrame.mActualQueueTime)]
    /\ acquireFenceCalls' = Append(acquireFenceCalls,
                                   [acquireFenceTime |-> acquireFenceTime,
                                    mActualQueueTime |-> surfaceFrame.mActualQueueTime])
    /\ UNCHANGED <<thresholds, owningDisplayFrame, aborted, setPresentStateCalls,
                   firstSetPresentState, jankReports>>
    /\ UNCHANGED exceptJankVars

\* The condition of the LOG_ALWAYS_FATAL_IF in setPresentState.
PresentStateAlreadySet(sf) == sf.mPresentState # "Unknown"

\* SurfaceFrame::setPresentState.
setPresentState(presentState, lastLatchTime) ==
    /\ ~aborted
    /\ setPresentStateCalls < MaxSetPresentStateCalls
    /\ setPresentStateCalls' = setPresentStateCalls + 1
    /\ IF PresentStateAlreadySet(surfaceFrame)
       THEN /\ aborted' = TRUE
            /\ UNCHANGED <<surfaceFrame, firstSetPresentState>>
       ELSE /\ aborted' = FALSE
            /\ surfaceFrame' = [surfaceFrame EXCEPT !.mPresentState = presentState,
                                                    !.mLastLatchTime = lastLatchTime]
            /\ firstSetPresentState' =
                   IF setPresentStateCalls = 0
                   THEN <<[mPresentState |-> presentState,
                           mLastLatchTime |-> lastLatchTime]>>
                   ELSE firstSetPresentState
    /\ UNCHANGED <<thresholds, owningDisplayFrame, jankReports, acquireFenceCalls>>
    /\ UNCHANGED exceptJankVars

\* FrameTimeline::setSfWakeUp on the owning display frame: the token's
\* predictions are found (Valid) or not (Expired).
setSfWakeUp(predictions, wakeUpTime, period) ==
    /\ ~aborted
    /\ ~owningDisplayFrame.armed
    /\ owningDisplayFrame' = onSfWakeUp(owningDisplayFrame, period, predictions, wakeUpTime)
    /\ UNCHANGED <<thresholds, surfaceFrame, aborted, setPresentStateCalls,
                   firstSetPresentState, jankReports, acquireFenceCalls>>
    /\ UNCHANGED exceptJankVars

\* FrameTimeline::setSfPresent on the owning display frame with a present
\* fence that has signalled at signalTime: setActualEndTime, then the flush
\* calls DisplayFrame::onPresent, which calls onPresent of the SurfaceFrame.
\* As in the compositor, setSfWakeUp has been called on the frame before.
presentOwningDisplayFrame(sfPresentTime, signalTime) ==
    /\ ~aborted
    /\ owningDisplayFrame.armed
    /\ owningDisplayFrame.onPresentCalls = 0
    /\ LET ended == [owningDisplayFrame EXCEPT
                        !.mSurfaceFlingerActuals.endTime = sfPresentTime]
           presented == DisplayFrameOnPresent(ended, signalTime, thresholds)
           child == SurfaceFrameOnPresent(surfaceFrame, signalTime, presented.mJankType,
                                          presented.mRefreshRatePeriod, thresholds)
       IN  /\ owningDisplayFrame' = presented
           /\ surfaceFrame' = child.frame
           /\ jankReports' = jankReports \o CalledHolding(LocksHeldInSetSfPresent, child.reports)
    /\ UNCHANGED <<thresholds, aborted, setPresentStateCalls, firstSetPresentState,
                   acquireFenceCalls>>
    /\ UNCHANGED exceptJankVars

JankNext ==
    \/ \E s \in StartTimes : setActualStartTime(s)
    \/ \E q \in QueueTimes : setActualQueueTime(q)
    \/ \E a \in AcquireFenceTimes : setAcquireFenceTime(a)
    \/ \E ps \in PresentStates, latch \in LatchTimes : setPresentState(ps, latch)
    \/ \E predictions \in {nullopt, Some(DisplayPredictions)},
          wakeUpTime \in WakeUpTimes, period \in PeriodChoices :
           setSfWakeUp(predictions, wakeUpTime, period)
    \/ \E sfPresentTime \in DisplayEndTimes, signalTime \in PresentFenceTimes :
           presentOwningDisplayFrame(sfPresentTime, signalTime)

\* ---------------------------------------------------------------------------
\* FrameTimeline with SurfaceFrames: the present cascade and the dumps
\* ---------------------------------------------------------------------------
\* Number of display frames the compositor submits.
MaxHistoryFrames == 2
\* Number of SurfaceFrames the layers add to the display frames.
MaxSurfaceFrames == 2

\* std::numeric_limits<nsecs_t>::max(), scaled to the integers of TLC.
NsecsMax == 2147483647

\* Display frame id is composed around the vsync at FrameEpoch(id); the
\* vsync period is HistoryPeriod.
HistoryPeriod == 10
FrameEpoch(id) == 20 + HistoryPeriod * id

\* Inputs of the compositor for display frame id: the predictions of its
\* token, its wake-up and end times, and the time its present fence reports
\* (the predicted one, or one later by a delay; or it is still pending).
HistoryDisplayPredictions(id) ==
    [startTime |-> FrameEpoch(id), endTime |-> FrameEpoch(id) + 2,
     presentTime |-> FrameEpoch(id) + 6]
HistoryWakeUpTime(id) == FrameEpoch(id)
HistoryEndTime(id) == FrameEpoch(id) + 2
SignalDelays == {0, 3}
HistorySignalTime(id, delay) ==
    IF delay \in {SIGNAL_TIME_PENDING, SIGNAL_TIME_INVALID} THEN delay
    ELSE FrameEpoch(id) + 6 + delay
LateSignalTime(id) == HistorySignalTime(id, 3)

\* The SurfaceFrames a layer hands to addSurfaceFrame for display frame id.
\* Both were created with a token whose predictions were found, started
\* almost two periods before the vsync and had their buffer queued and its
\* acquire fence signalled before it; one was latched (Presented), the
\* other was replaced by a newer buffer (Dropped).
AppPredictions(id) ==
    [startTime |-> FrameEpoch(id) - 18, endTime |-> FrameEpoch(id) - 2,
     presentTime |-> FrameEpoch(id) + 6]
QueuedSurfaceFrame(id) ==
    [createSurfaceFrameForToken(TRUE, Some(AppPredictions(id))) EXCEPT
        !.mActualQueueTime = FrameEpoch(id) - 3,
        !.mActuals.endTime = Max(FrameEpoch(id) - 2, FrameEpoch(id) - 3)]
SurfaceFrameKinds == {"Presented", "Dropped"}
SurfaceFrameOfKind(kind, id) ==
    [QueuedSurfaceFrame(id) EXCEPT
        !.mPresentState = kind,
        !.mLastLatchTime = FrameEpoch(id)]

\* The start time a layer reports with setActualStartTime for a frame it
\* has added: the application started a little before its predicted start.
HistoryActualStartTime(id) == FrameEpoch(id) - 19

\* DisplayFrame::DisplayFrame, with its (empty) vector of SurfaceFrames.
NewDisplayFrameWithSurfaceFrames == NewOwningDisplayFrame @@ [mSurfaceFrames |-> <<>>]

\* DisplayFrame::addSurfaceFrame: push_back. mLayerName names the layer by
\* the ordinal of the call.
DisplayFrameAddSurfaceFrame(df, sf) ==
    [df EXCEPT !.mSurfaceFrames =
        Append(@, sf @@ [mLayerName |-> Len(df.mSurfaceFrames) + 1])]

\* One SurfaceFrame::onPresent call as the callee sees it.
OnPresentCall(frameId, sf, presentTime, displayFrameJankType, period) ==
    [frame |-> frameId, layer |-> sf.mLayerName, presentTime |-> presentTime,
     displayFrameJankType |-> displayFrameJankType, refreshRatePeriod |-> period]

\* The loop that ends DisplayFrame::onPresent, from the i-th SurfaceFrame
\* on: each gets onPresent with the signal time, the display frame's jank
\* type and its refresh rate. df is the classified display frame.
RECURSIVE OnPresentLoop(_, _, _, _, _, _)
OnPresentLoop(i, frameId, df, signalTime, thr, log) ==
    IF i > Len(df.mSurfaceFrames) THEN [frame |-> df, log |-> log]
    ELSE LET r == SurfaceFrameOnPresent(df.mSurfaceFrames[i], signalTime, df.mJankType,
                                        df.mRefreshRatePeriod, thr)
         IN  OnPresentLoop(i + 1, frameId,
                           [df EXCEPT !.mSurfaceFrames[i] = r.frame],
                           signalTime, thr,
                           Append(log, OnPresentCall(frameId, df.mSurfaceFrames[i],
                                                     signalTime, df.mJankType,
                                                     df.mRefreshRatePeriod)))

\* A faulty variant of DisplayFrameOnPresentAll: the SurfaceFrames are
\* called before the display frame is classified.
DisplayFrameOnPresentChildrenFirst(frameId, df, signalTime, thr, log) ==
    LET looped == OnPresentLoop(1, frameId, df, signalTime, thr, log)
    IN  [frame |-> DisplayFrameOnPresent(looped.frame, signalTime, thr),
         log |-> looped.log]

\* DisplayFrame::onPresent: the display frame is classified, then the loop
\* over its SurfaceFrames runs. log collects the SurfaceFrame::onPresent
\* calls.
DisplayFrameOnPresentAll(frameId, df, signalTime, thr, log) ==
    OnPresentLoop(1, frameId, DisplayFrameOnPresent(df, signalTime, thr),
                  signalTime, thr, log)

\* FrameTimeline::flushPendingPresentFences over the queue of frame ids,
\* from position i on; signal gives what getSignalTime() of each fence
\* reports, SIGNAL_TIME_INVALID standing also for a null fence and for one
\* that is not valid: such an entry is erased without onPresent.
RECURSIVE FlushWithSurfaceFrames(_, _, _, _, _, _)
FlushWithSurfaceFrames(i, queue, frames, signal, thr, log) ==
    IF i > Len(queue) THEN [queue |-> queue, frames |-> frames, log |-> log]
    ELSE LET id == queue[i]
         IN  IF signal[id] = SIGNAL_TIME_PENDING
             THEN FlushWithSurfaceFrames(i + 1, queue, frames, signal, thr, log)
             ELSE IF signal[id] = SIGNAL_TIME_INVALID
             THEN FlushWithSurfaceFrames(i, Erase(queue, i), frames, signal, thr, log)
             ELSE LET r == DisplayFrameOnPresentAll(id, frames[id], signal[id], thr, log)
                  IN  FlushWithSurfaceFrames(i, Erase(queue, i),
                                             [frames EXCEPT ![id] = r.frame],
                                             signal, thr, r.log)

\* --- The dumps ---------------------------------------------------------------

\* getMinTime: "the smallest timestamp from the set of predictions and
\* actuals"; for a set present time the code takes the minimum with the
\* end time.
getMinTime(predictionState, predictions, actuals) ==
    LET m0 == NsecsMax
        m1 == IF predictionState = "Valid" THEN Min(m0, predictions.startTime) ELSE m0
        m2 == IF actuals.startTime # 0 THEN Min(m1, actuals.startTime) ELSE m1
        m3 == IF actuals.endTime # 0 THEN Min(m2, actuals.endTime) ELSE m2
    IN  IF actuals.presentTime # 0 THEN Min(m3, actuals.endTime) ELSE m3

\* SurfaceFrame::getBaseTime.
SurfaceFrameGetBaseTime(sf) == getMinTime(sf.mPredictionState, sf.mPredictions, sf.mActuals)

\* DisplayFrame::getBaseTime, one round of its loop: the base time so far
\* is lowered by the base time of the SurfaceFrame if it has one.
LowerBySurfaceFrame(baseTime, sf) ==
    LET surfaceFrameBaseTime == SurfaceFrameGetBaseTime(sf)
    IN  IF surfaceFrameBaseTime # 0 THEN Min(baseTime, surfaceFrameBaseTime) ELSE baseTime

\* SurfaceFrame::getJankType: nullopt until the frame has a present time.
SurfaceFrameGetJankType(sf) ==
    IF sf.mActuals.presentTime = 0 THEN nullopt ELSE Some(sf.mJankType)

\* operator!= of a std::optional and a value.
OptionalDiffers(opt, value) == opt = nullopt \/ opt[1] # value

\* The text is a sequence of lines <<indent, label, value>>; a time is
\* printed as the number of time units, "N/A" as nullopt.
DumpLine(indent, label, value) == <<indent, label, value>>

\* dumpTable.
dumpTable(predictions, actuals, indent, predictionState, baseTime) ==
    (IF predictionState = "Valid"
     THEN <<DumpLine(indent, "Expected",
                     <<predictions.startTime - baseTime, predictions.endTime - baseTime,
                       predictions.presentTime - baseTime>>)>>
     ELSE <<>>)
    \o <<DumpLine(indent, "Actual",
                  <<IF actuals.startTime = 0 THEN nullopt
                    ELSE Some(Max(0, actuals.startTime - baseTime)),
                    IF actuals.endTime <= 0 THEN nullopt
                    ELSE Some(actuals.endTime - baseTime),
                    IF actuals.presentTime = 0 THEN nullopt
                    ELSE Some(Max(0, actuals.presentTime - baseTime))>>)>>

\* SurfaceFrame::dump (the token, the owner pid and the render rate, which
\* never change, are left out).
SurfaceFrameDump(sf, indent, baseTime) ==
    <<DumpLine(indent, "Layer", <<sf.mLayerName, sf.mJankType # JankNone>>),
      DumpLine(indent, "Present State", sf.mPresentState),
      DumpLine(indent, "Prediction State", sf.mPredictionState),
      DumpLine(indent, "Jank Type", sf.mJankType),
      DumpLine(indent, "Present Metadata", sf.mFramePresentMetadata),
      DumpLine(indent, "Finish Metadata", sf.mFrameReadyMetadata),
      DumpLine(indent, "Last latch time", Max(0, sf.mLastLatchTime - baseTime))>>
    \o (IF sf.mPredictionState = "Valid"
        THEN <<DumpLine(indent, "Present delta",
                        Abs(sf.mActuals.presentTime - sf.mPredictions.presentTime))>>
        ELSE <<>>)
    \o dumpTable(sf.mPredictions, sf.mActuals, indent, sf.mPredictionState, baseTime)

\* DisplayFrame::dump up to its loop over the SurfaceFrames.
DisplayFrameDumpHead(df, baseTime) ==
    LET presentDelta == df.mSurfaceFlingerActuals.presentTime
                            - df.mSurfaceFlingerPredictions.presentTime
    IN  <<DumpLine("", "Janky", df.mJankType # JankNone),
          DumpLine("", "Prediction State", df.mPredictionState),
          DumpLine("", "Jank Type", df.mJankType),
          DumpLine("", "Present Metadata", df.mFramePresentMetadata),
          DumpLine("", "Finish Metadata", df.mFrameReadyMetadata),
          DumpLine("", "Start Metadata", df.mFrameStartMetadata),
          DumpLine("", "Vsync Period", df.mRefreshRatePeriod),
          DumpLine("", "Present delta", Abs(presentDelta)),
          DumpLine("", "Present delta % refreshrate",
                   Abs(presentDelta) % df.mRefreshRatePeriod)>>
        \o dumpTable(df.mSurfaceFlingerPredictions, df.mSurfaceFlingerActuals, "",
                     df.mPredictionState, baseTime)

\* A dump call holds FrameTimeline::mMutex from its start to its return and
\* locks SurfaceFrame::mMutex for each getBaseTime, getJankType and dump of
\* a SurfaceFrame. pc names the SurfaceFrame call it is about to make: of
\* SurfaceFrame j of the display frame at position i of the history.
NoDumpCall == [op |-> "none", pc |-> "idle", i |-> 0, j |-> 0, raced |-> FALSE]

\* The loop of FrameTimeline::dumpAll / dumpJank from the display frame at
\* position i (the code counts from 0) up to the next SurfaceFrame call:
\* dumpAll prints every frame; DisplayFrame::dumpJank prints a frame whose
\* own jank type is not None and otherwise asks its SurfaceFrames first,
\* returning at once when it has none.
RECURSIVE DumpFrom(_, _, _, _, _, _)
DumpFrom(op, i, frames, ids, baseTime, text) ==
    IF i > Len(ids) THEN [pc |-> "idle", i |-> 0, j |-> 0, text |-> text]
    ELSE LET df == frames[ids[i]]
             head == <<DumpLine("", "Display Frame", i - 1)>>
                         \o DisplayFrameDumpHead(df, baseTime)
         IN  IF op = "dumpAll" \/ df.mJankType # JankNone
             THEN IF df.mSurfaceFrames = <<>>
                  THEN DumpFrom(op, i + 1, frames, ids, baseTime, text \o head)
                  ELSE [pc |-> "dump", i |-> i, j |-> 1, text |-> text \o head]
             ELSE IF df.mSurfaceFrames = <<>>
                  THEN DumpFrom(op, i + 1, frames, ids, baseTime, text)
                  ELSE [pc |-> "getJankType", i |-> i, j |-> 1, text |-> text]

\* --- The operations ----------------------------------------------------------

HistoryInit ==
    /\ timelineFrames = [id \in {1} |-> NewDisplayFrameWithSurfaceFrames]
    /\ historyIds = <<>>
    /\ pendingIds = <<>>
    /\ currentId = 1
    /\ onPresentLog = <<>>
    /\ surfaceFramesAdded = 0
    /\ dumpOp = "none"
    /\ dumpCall = NoDumpCall
    /\ dumpResult = <<>>
    /\ dumpBaseTime = 0

\* No dump call has been made since this mutating call; a call that needs
\* FrameTimeline::mMutex waits for a dump to return.
NoDumpSince ==
    /\ dumpCall.pc = "idle"
    /\ dumpOp' = "none"
    /\ dumpCall' = NoDumpCall
    /\ dumpResult' = <<>>
    /\ dumpBaseTime' = 0

\* FrameTimeline::setSfWakeUp on the current display frame.
wakeUpCurrentFrame(predictions, wakeUpTime, period) ==
    /\ currentId <= MaxHistoryFrames
    /\ ~timelineFrames[currentId].armed
    /\ timelineFrames' = [timelineFrames EXCEPT
                             ![currentId] = onSfWakeUp(@, period, predictions, wakeUpTime)]
    /\ NoDumpSince
    /\ UNCHANGED <<historyIds, pendingIds, currentId, onPresentLog, surfaceFramesAdded>>
    /\ UNCHANGED exceptHistoryVars

\* FrameTimeline::addSurfaceFrame. As in the compositor, it follows
\* setSfWakeUp.
addSurfaceFrame(sf) ==
    /\ currentId <= MaxHistoryFrames
    /\ timelineFrames[currentId].armed
    /\ surfaceFramesAdded < MaxSurfaceFrames
    /\ surfaceFramesAdded' = surfaceFramesAdded + 1
    /\ timelineFrames' = [timelineFrames EXCEPT
                             ![currentId] = DisplayFrameAddSurfaceFrame(@, sf)]
    /\ NoDumpSince
    /\ UNCHANGED <<historyIds, pendingIds, currentId, onPresentLog>>
    /\ UNCHANGED exceptHistoryVars

\* FrameTimeline::setSfPresent with a present fence that reports signalTime
\* (SIGNAL_TIME_INVALID also for a null fence or one that is not valid); the
\* fences in `resolved`, pending so far, have signalled late meanwhile.
presentCurrentFrame(sfPresentTime, signalTime, resolved) ==
    /\ currentId <= MaxHistoryFrames
    /\ timelineFrames[currentId].armed
    /\ resolved \subseteq {pendingIds[i] : i \in 1..Len(pendingIds)}
    /\ LET ended == [timelineFrames EXCEPT
                        ![currentId].mSurfaceFlingerActuals.endTime = sfPresentTime]
           signal == [id \in DOMAIN timelineFrames |->
                        IF id = currentId THEN signalTime
                        ELSE IF id \in resolved THEN LateSignalTime(id)
                        ELSE SIGNAL_TIME_PENDING]
           flushed == FlushWithSurfaceFrames(1, Append(pendingIds, currentId), ended,
                                             signal, thresholds, <<>>)
           history == Append(PopOlderFrames(historyIds, kDefaultMaxDisplayFrames), currentId)
           live == {history[i] : i \in 1..Len(history)}
                       \cup {flushed.queue[i] : i \in 1..Len(flushed.queue)}
       IN  /\ timelineFrames' =
                  [id \in live \cup {currentId + 1} |->
                      IF id = currentId + 1 THEN NewDisplayFrameWithSurfaceFrames
                      ELSE flushed.frames[id]]
           /\ historyIds' = history
           /\ pendingIds' = flushed.queue
           /\ onPresentLog' = flushed.log
    /\ currentId' = currentId + 1
    /\ NoDumpSince
    /\ UNCHANGED surfaceFramesAdded
    /\ UNCHANGED exceptHistoryVars

\* SurfaceFrame::setActualStartTime, called by its layer on a SurfaceFrame
\* that was added to a display frame; it takes SurfaceFrame::mMutex only,
\* so it may run while a dump is between two SurfaceFrame calls.
layerSetActualStartTime(id, j) ==
    /\ id \in DOMAIN timelineFrames
    /\ j \in 1..Len(timelineFrames[id].mSurfaceFrames)
    /\ timelineFrames[id].mSurfaceFrames[j].mActuals.startTime = 0
    /\ timelineFrames' =
           [timelineFrames EXCEPT ![id].mSurfaceFrames[j] =
               SurfaceFrameSetActualStartTime(@, HistoryActualStartTime(id))]
    /\ IF dumpCall.pc = "idle"
       THEN /\ dumpOp' = "none"
            /\ dumpCall' = NoDumpCall
            /\ dumpResult' = <<>>
            /\ dumpBaseTime' = 0
       ELSE /\ dumpCall' = [dumpCall EXCEPT !.raced = TRUE]
            /\ UNCHANGED <<dumpOp, dumpResult, dumpBaseTime>>
    /\ UNCHANGED <<historyIds, pendingIds, currentId, onPresentLog, surfaceFramesAdded>>
    /\ UNCHANGED exceptHistoryVars

\* The dump goes on to `next`, the result of DumpFrom or a SurfaceFrame
\* call still to make; at "idle" the call has returned.
DumpGoesOn(op, next, baseTime, text, raced) ==
    /\ dumpCall' = [op |-> op, pc |-> next.pc, i |-> next.i, j |-> next.j, raced |-> raced]
    /\ dumpOp' = IF next.pc = "idle" THEN op ELSE "none"
    /\ dumpResult' = text
    /\ dumpBaseTime' = baseTime
    /\ UNCHANGED <<timelineFrames, historyIds, pendingIds, currentId, onPresentLog,
                   surfaceFramesAdded>>
    /\ UNCHANGED exceptHistoryVars

\* FrameTimeline::dumpAll / dumpJank from the lock of FrameTimeline::mMutex
\* up to the first SurfaceFrame call: the first line of dumpAll, and the
\* start of mDisplayFrames[0]->getBaseTime().
DumpStart(op) ==
    LET text == IF op = "dumpAll"
                THEN <<DumpLine("", "Number of display frames", Len(historyIds))>>
                ELSE <<>>
    IN  /\ dumpCall.pc = "idle"
        /\ IF historyIds = <<>>
           THEN DumpGoesOn(op, DumpFrom(op, 1, timelineFrames, historyIds, 0, text), 0,
                           text, FALSE)
           ELSE LET df == timelineFrames[historyIds[1]]
                    own == getMinTime(df.mPredictionState, df.mSurfaceFlingerPredictions,
                                      df.mSurfaceFlingerActuals)
                    next == DumpFrom(op, 1, timelineFrames, historyIds, own, text)
                IN  IF df.mSurfaceFrames = <<>>
                    THEN DumpGoesOn(op, next, own, next.text, FALSE)
                    ELSE DumpGoesOn(op, [pc |-> "getBaseTime", i |-> 1, j |-> 1], own,
                                    text, FALSE)

\* FrameTimeline::dumpAll.
dumpAll == DumpStart("dumpAll")

\* FrameTimeline::dumpJank.
dumpJank == DumpStart("dumpJank")

\* DisplayFrame::getBaseTime of mDisplayFrames[0]: getBaseTime() of its
\* next SurfaceFrame; after the last one the loop over the history begins.
dumpGetBaseTime ==
    /\ dumpCall.pc = "getBaseTime"
    /\ LET df == timelineFrames[historyIds[1]]
           baseTime == LowerBySurfaceFrame(dumpBaseTime, df.mSurfaceFrames[dumpCall.j])
           next == DumpFrom(dumpCall.op, 1, timelineFrames, historyIds, baseTime, dumpResult)
       IN  IF dumpCall.j < Len(df.mSurfaceFrames)
           THEN DumpGoesOn(dumpCall.op, [dumpCall EXCEPT !.j = @ + 1], baseTime, dumpResult,
                           dumpCall.raced)
           ELSE DumpGoesOn(dumpCall.op, next, baseTime, next.text, dumpCall.raced)

\* DisplayFrame::dumpJank: getJankType() of the next SurfaceFrame of a
\* display frame whose own jank type is None. A jank type that is not None
\* ends the loop and the frame is printed; after the last SurfaceFrame
\* the frame is left out.
dumpGetJankType ==
    /\ dumpCall.pc = "getJankType"
    /\ LET df == timelineFrames[historyIds[dumpCall.i]]
           head == <<DumpLine("", "Display Frame", dumpCall.i - 1)>>
                       \o DisplayFrameDumpHead(df, dumpBaseTime)
           next == DumpFrom(dumpCall.op, dumpCall.i + 1, timelineFrames, historyIds,
                            dumpBaseTime, dumpResult)
       IN  IF OptionalDiffers(SurfaceFrameGetJankType(df.mSurfaceFrames[dumpCall.j]), JankNone)
           THEN DumpGoesOn(dumpCall.op, [pc |-> "dump", i |-> dumpCall.i, j |-> 1],
                           dumpBaseTime, dumpResult \o head, dumpCall.raced)
           ELSE IF dumpCall.j < Len(df.mSurfaceFrames)
           THEN DumpGoesOn(dumpCall.op, [dumpCall EXCEPT !.j = @ + 1], dumpBaseTime,
                           dumpResult, dumpCall.raced)
           ELSE DumpGoesOn(dumpCall.op, next, dumpBaseTime, next.text, dumpCall.raced)

\* DisplayFrame::dump: dump() of the next SurfaceFrame of the display frame
\* being printed; after the last one the next display frame follows.
dumpSurfaceFrame ==
    /\ dumpCall.pc = "dump"
    /\ LET df == timelineFrames[historyIds[dumpCall.i]]
           text == dumpResult \o SurfaceFrameDump(df.mSurfaceFrames[dumpCall.j], "    ",
                                                  dumpBaseTime)
           next == DumpFrom(dumpCall.op, dumpCall.i + 1, timelineFrames, historyIds,
                            dumpBaseTime, text)
       IN  IF dumpCall.j < Len(df.mSurfaceFrames)
           THEN DumpGoesOn(dumpCall.op, [dumpCall EXCEPT !.j = @ + 1], dumpBaseTime, text,
                           dumpCall.raced)
           ELSE DumpGoesOn(dumpCall.op, next, dumpBaseTime, next.text, dumpCall.raced)

HistoryNext ==
    \/ wakeUpCurrentFrame(Some(HistoryDisplayPredictions(currentId)),
                          HistoryWakeUpTime(currentId), HistoryPeriod)
    \/ \E kind \in SurfaceFrameKinds : addSurfaceFrame(SurfaceFrameOfKind(kind, currentId))
    \/ \E id \in 1..(MaxHistoryFrames + 1), j \in 1..MaxSurfaceFrames :
           layerSetActualStartTime(id, j)
    \/ \E delay \in SignalDelays \cup {SIGNAL_TIME_PENDING, SIGNAL_TIME_INVALID},
          resolved \in SUBSET (1..MaxHistoryFrames) :
           presentCurrentFrame(HistoryEndTime(currentId),
                               HistorySignalTime(currentId, delay), resolved)

\* The dumps, on a history the compositor builds with fences that have
\* signalled, while the layers report start times.
DumpNext ==
    \/ wakeUpCurrentFrame(Some(HistoryDisplayPredictions(currentId)),
                          HistoryWakeUpTime(currentId), HistoryPeriod)
    \/ \E kind \in SurfaceFrameKinds : addSurfaceFrame(SurfaceFrameOfKind(kind, currentId))
    \/ \E id \in 1..(MaxHistoryFrames + 1), j \in 1..MaxSurfaceFrames :
           layerSetActualStartTime(id, j)
    \/ \E delay \in SignalDelays :
           presentCurrentFrame(HistoryEndTime(currentId),
                               HistorySignalTime(currentId, delay), {})
    \/ dumpAll
    \/ dumpJank
    \/ dumpGetBaseTime
    \/ dumpGetJankType
    \/ dumpSurfaceFrame

\* ---------------------------------------------------------------------------
\* RefreshRateConfigs: the display-manager policy and the override policy
\* ---------------------------------------------------------------------------
\* std::numeric_limits<float>::max(), the default FpsRange::max, scaled.
FpsMax == 1000

\* status_t values of set*Policy.
NO_ERROR == "NO_ERROR"
BAD_VALUE == "BAD_VALUE"
CURRENT_POLICY_UNCHANGED == "CURRENT_POLICY_UNCHANGED"

\* mRefreshRates: the display modes of the device, config id -> fps.
RefreshRates == [configId \in 0..2 |-> 60 + 30 * configId]

\* The config the device runs at when RefreshRateConfigs is constructed.
InitialConfigId == 0

FpsRange(min, max) == [min |-> min, max |-> max]

\* The policies the callers pass: the default config is a mode of the
\* device or is not (3), and the ranges may or may not nest.
FpsRangeChoices == {FpsRange(60, 60), FpsRange(60, 90), FpsRange(60, 120)}
PolicyChoices ==
    [defaultConfig : {0, 1, 3}, allowGroupSwitching : {FALSE},
     primaryRange : FpsRangeChoices, appRequestRange : FpsRangeChoices]

\* RefreshRate::inPolicy (the fps values of the model are far apart, so the
\* margin of the comparison plays no part).
inPolicy(fps, minRefreshRate, maxRefreshRate) ==
    minRefreshRate <= fps /\ fps <= maxRefreshRate

\* FpsRange::operator== (the fps values of the model are integers, so the
\* margin of equalsWithMargin plays no part).
FpsRangeEquals(range, other) == range.min = other.min /\ range.max = other.max

\* Policy::operator==.
PolicyEquals(policy, other) ==
    /\ policy.defaultConfig = other.defaultConfig
    /\ FpsRangeEquals(policy.primaryRange, other.primaryRange)
    /\ FpsRangeEquals(policy.appRequestRange, other.appRequestRange)
    /\ policy.allowGroupSwitching = other.allowGroupSwitching

\* A faulty variant of isPolicyValidLocked: only the ranges are looked at.
isPolicyValidLockedRangesOnly(policy) ==
    /\ policy.appRequestRange.min <= policy.primaryRange.min
    /\ policy.primaryRange.max <= policy.appRequestRange.max

\* isPolicyValidLocked: the default config is a mode of the device and the
\* primary range lies within the app request range.
isPolicyValidLocked(policy) ==
    /\ policy.defaultConfig \in DOMAIN RefreshRates
    /\ policy.appRequestRange.min <= policy.primaryRange.min
    /\ policy.primaryRange.max <= policy.appRequestRange.max

\* A faulty variant of getCurrentPolicyLocked: the display manager policy
\* wins once it differs from the one the device started with.
getCurrentPolicyLockedNewestWins(displayManagerPolicy, overridePolicy) ==
    IF overridePolicy # nullopt /\ displayManagerPolicy.primaryRange.max = FpsMax
    THEN overridePolicy[1]
    ELSE displayManagerPolicy

\* getCurrentPolicyLocked: the override policy while one is set, the
\* display manager policy otherwise.
getCurrentPolicyLocked(displayManagerPolicy, overridePolicy) ==
    IF overridePolicy # nullopt THEN overridePolicy[1] ELSE displayManagerPolicy

\* getSortedRefreshRateListLocked: the config ids whose fps is in [min, max],
\* lowest fps first.
RECURSIVE SortedRefreshRateList(_, _, _)
SortedRefreshRateList(configId, min, max) ==
    IF configId \notin DOMAIN RefreshRates THEN <<>>
    ELSE (IF inPolicy(RefreshRates[configId], min, max) THEN <<configId>> ELSE <<>>)
             \o SortedRefreshRateList(configId + 1, min, max)

\* constructAvailableRefreshRates: the two lists for a policy.
PrimaryRefreshRatesOf(policy) ==
    SortedRefreshRateList(0, policy.primaryRange.min, policy.primaryRange.max)
AppRequestRefreshRatesOf(policy) ==
    SortedRefreshRateList(0, policy.appRequestRange.min, policy.appRequestRange.max)

\* No getBestRefreshRate call has been made under the policy in force.
NoSelection == [op |-> "none", layers |-> <<>>, globalSignals |-> [touch |-> FALSE, idle |-> FALSE],
                result |-> InitialConfigId]

\* RefreshRateConfigs::RefreshRateConfigs: the display manager policy names
\* the current config and has default (unbounded) ranges; no override.
InitialPolicy ==
    [defaultConfig |-> InitialConfigId, allowGroupSwitching |-> FALSE,
     primaryRange |-> FpsRange(0, FpsMax), appRequestRange |-> FpsRange(0, FpsMax)]

PolicyInit ==
    /\ mDisplayManagerPolicy = InitialPolicy
    /\ mOverridePolicy = nullopt
    /\ mPrimaryRefreshRates = PrimaryRefreshRatesOf(InitialPolicy)
    /\ mAppRequestRefreshRates = AppRequestRefreshRatesOf(InitialPolicy)
    /\ policyOp = [op |-> "none", policy |-> nullopt, status |-> NO_ERROR, stored |-> FALSE]
    /\ acceptedDisplayManagerPolicy = InitialPolicy
    /\ acceptedOverridePolicy = nullopt
    /\ acceptedWhileOverridden = FALSE
    /\ selectOp = NoSelection

\* RefreshRateConfigs::getCurrentPolicy.
getCurrentPolicy == getCurrentPolicyLocked(mDisplayManagerPolicy, mOverridePolicy)

\* A faulty variant of PolicyStored: the status tells whether the stored
\* policies changed, not whether the current policy did.
PolicyStoredComparesStored(op, policy, previousPolicy) ==
    LET current == getCurrentPolicyLocked(mDisplayManagerPolicy', mOverridePolicy')
        status == IF <<mDisplayManagerPolicy', mOverridePolicy'>>
                         = <<mDisplayManagerPolicy, mOverridePolicy>>
                  THEN CURRENT_POLICY_UNCHANGED ELSE NO_ERROR
    IN  /\ policyOp' = [op |-> op, policy |-> policy, status |-> status,
                        stored |-> <<mDisplayManagerPolicy', mOverridePolicy'>>
                                       # <<mDisplayManagerPolicy, mOverridePolicy>>]
        /\ IF status = NO_ERROR
           THEN /\ mPrimaryRefreshRates' = PrimaryRefreshRatesOf(current)
                /\ mAppRequestRefreshRates' = AppRequestRefreshRatesOf(current)
           ELSE UNCHANGED <<mPrimaryRefreshRates, mAppRequestRefreshRates>>

\* What set*Policy does once the policy has been stored: the status tells
\* whether the current policy changed, and if it did the lists of available
\* refresh rates are rebuilt.
PolicyStored(op, policy, previousPolicy) ==
    LET current == getCurrentPolicyLocked(mDisplayManagerPolicy', mOverridePolicy')
        status == IF PolicyEquals(current, previousPolicy)
                  THEN CURRENT_POLICY_UNCHANGED ELSE NO_ERROR
    IN  /\ policyOp' = [op |-> op, policy |-> policy, status |-> status,
                        stored |-> <<mDisplayManagerPolicy', mOverridePolicy'>>
                                       # <<mDisplayManagerPolicy, mOverridePolicy>>]
        /\ IF status = NO_ERROR
           THEN /\ mPrimaryRefreshRates' = PrimaryRefreshRatesOf(current)
                /\ mAppRequestRefreshRates' = AppRequestRefreshRatesOf(current)
           ELSE UNCHANGED <<mPrimaryRefreshRates, mAppRequestRefreshRates>>

\* RefreshRateConfigs::setDisplayManagerPolicy.
setDisplayManagerPolicy(policy) ==
    /\ IF ~isPolicyValidLocked(policy)
       THEN /\ policyOp' = [op |-> "setDisplayManagerPolicy", policy |-> Some(policy),
                            status |-> BAD_VALUE, stored |-> FALSE]
            /\ UNCHANGED <<mDisplayManagerPolicy, mOverridePolicy, mPrimaryRefreshRates,
                           mAppRequestRefreshRates, acceptedDisplayManagerPolicy,
                           acceptedWhileOverridden>>
       ELSE /\ mDisplayManagerPolicy' = policy
            /\ UNCHANGED mOverridePolicy
            /\ PolicyStored("setDisplayManagerPolicy", Some(policy), getCurrentPolicy)
            /\ acceptedDisplayManagerPolicy' = policy
            /\ acceptedWhileOverridden' = (acceptedOverridePolicy # nullopt)
    /\ UNCHANGED acceptedOverridePolicy
    /\ selectOp' = NoSelection
    /\ UNCHANGED exceptPolicyVars

\* RefreshRateConfigs::setOverridePolicy: nullopt clears the override.
setOverridePolicy(policy) ==
    /\ IF policy # nullopt /\ ~isPolicyValidLocked(policy[1])
       THEN /\ policyOp' = [op |-> "setOverridePolicy", policy |-> policy,
                            status |-> BAD_VALUE, stored |-> FALSE]
            /\ UNCHANGED <<mDisplayManagerPolicy, mOverridePolicy, mPrimaryRefreshRates,
                           mAppRequestRefreshRates, acceptedOverridePolicy>>
       ELSE /\ mOverridePolicy' = policy
            /\ UNCHANGED mDisplayManagerPolicy
            /\ PolicyStored("setOverridePolicy", policy, getCurrentPolicy)
            /\ acceptedOverridePolicy' = policy
    /\ UNCHANGED <<acceptedDisplayManagerPolicy, acceptedWhileOverridden>>
    /\ selectOp' = NoSelection
    /\ UNCHANGED exceptPolicyVars

PolicyNext ==
    \/ \E policy \in PolicyChoices : setDisplayManagerPolicy(policy)
    \/ \E policy \in {nullopt} \cup {Some(p) : p \in PolicyChoices} : setOverridePolicy(policy)

\* --- Selection of the best refresh rate ------------------------------------

\* The votes made through the setFrameRate() api (LayerVoteType::Explicit*).
ExplicitVotes == {"ExplicitDefault", "ExplicitExactOrMultiple", "ExplicitExact"}

\* RefreshRateConfigs::LayerRequirement; weight 1 is the float 1.0.
LayerRequirement(vote, desiredRefreshRate, weight, focused) ==
    [vote |-> vote, desiredRefreshRate |-> desiredRefreshRate, weight |-> weight,
     focused |-> focused]

\* The layers the callers pass.
LayerChoices ==
    {LayerRequirement("Min", 0, 1, FALSE), LayerRequirement("Max", 0, 1, FALSE),
     LayerRequirement("Heuristic", 90, 1, FALSE),
     LayerRequirement("ExplicitExact", 30, 1, TRUE),
     LayerRequirement("ExplicitExact", 120, 1, TRUE)}

MaxLayers == 2
LayerLists == UNION {[1..n -> LayerChoices] : n \in 0..MaxLayers}

\* RefreshRateConfigs::GlobalSignals.
GlobalSignalsChoices == [touch : BOOLEAN, idle : BOOLEAN]

\* The policies the selection is exercised under.
SelectPolicyChoices ==
    {[defaultConfig |-> 0, allowGroupSwitching |-> FALSE,
      primaryRange |-> FpsRange(60, 60), appRequestRange |-> FpsRange(60, 90)],
     [defaultConfig |-> 0, allowGroupSwitching |-> FALSE,
      primaryRange |-> FpsRange(60, 90), appRequestRange |-> FpsRange(60, 90)],
     [defaultConfig |-> 1, allowGroupSwitching |-> FALSE,
      primaryRange |-> FpsRange(60, 90), appRequestRange |-> FpsRange(60, 120)],
     [defaultConfig |-> 3, allowGroupSwitching |-> FALSE,
      primaryRange |-> FpsRange(60, 120), appRequestRange |-> FpsRange(60, 90)]}

\* The score of a layer that is fully satisfied, before weighting.
FullScore == 100

\* getFrameRateDivider: the display refresh rate divider that matches the
\* layer frame rate, or 0 if the display rate is not a multiple of it.
getFrameRateDivider(displayFrameRate, layerFrameRate) ==
    IF layerFrameRate > 0 /\ displayFrameRate % layerFrameRate = 0
    THEN displayFrameRate \div layerFrameRate
    ELSE 0

\* calculateLayerScoreLocked: NoVote scores 0; Min and Max prefer the lowest
\* and the highest candidate; the other votes score full for an integer
\* divider and less than half otherwise; the score is weighted and doubled
\* for a focused layer.  All modes are in one config group, so no candidate
\* needs a group switch.
calculateLayerScoreLocked(layer, configId, candidates) ==
    LET fps == RefreshRates[configId]
        desired == layer.desiredRefreshRate
        fit == CASE layer.vote = "NoVote" -> 0
                 [] layer.vote = "Min" ->
                        IF configId = candidates[1] THEN FullScore ELSE 0
                 [] layer.vote = "Max" ->
                        IF configId = candidates[Len(candidates)] THEN FullScore ELSE 0
                 [] OTHER ->
                        IF getFrameRateDivider(fps, desired) > 0 THEN FullScore
                        ELSE IF fps < desired THEN (FullScore * fps) \div (2 * desired)
                        ELSE FullScore \div (2 + fps \div desired)
    IN  fit * layer.weight * (IF layer.focused THEN 2 ELSE 1)

\* The score of a candidate accumulated across the layers from the i-th on.
RECURSIVE RefreshRateScore(_, _, _, _)
RefreshRateScore(i, layers, configId, candidates) ==
    IF i > Len(layers) THEN 0
    ELSE calculateLayerScoreLocked(layers[i], configId, candidates)
             + RefreshRateScore(i + 1, layers, configId, candidates)

\* A faulty variant of BestRefreshRateOf: among equal top scores the last
\* candidate wins.
BestRefreshRateOfLastWins(layers, candidates) ==
    LET score(k) == RefreshRateScore(1, layers, candidates[k], candidates)
        best == CHOOSE k \in 1..Len(candidates) :
                    /\ \A j \in 1..Len(candidates) : score(j) <= score(k)
                    /\ \A j \in (k + 1)..Len(candidates) : score(j) < score(k)
    IN  candidates[best]

\* getBestRefreshRate(begin, end): the candidate with the highest score; of
\* several with the same highest score the first one.
BestRefreshRateOf(layers, candidates) ==
    LET score(k) == RefreshRateScore(1, layers, candidates[k], candidates)
        best == CHOOSE k \in 1..Len(candidates) :
                    /\ \A j \in 1..Len(candidates) : score(j) <= score(k)
                    /\ \A j \in 1..(k - 1) : score(j) < score(k)
    IN  candidates[best]

\* A faulty variant of CandidatesFor: every mode of the device is a
\* candidate once a layer votes explicitly.
CandidatesForAnyMode(layers) ==
    IF \E i \in 1..Len(layers) : layers[i].vote \in ExplicitVotes
    THEN SortedRefreshRateList(0, 0, FpsMax)
    ELSE mPrimaryRefreshRates

\* The candidate set: the primary range, or the app request range when a
\* layer votes explicitly.
CandidatesFor(layers) ==
    IF \E i \in 1..Len(layers) : layers[i].vote \in ExplicitVotes
    THEN mAppRequestRefreshRates
    ELSE mPrimaryRefreshRates

\* RefreshRateConfigs::getBestRefreshRate(layers, globalSignals): the best
\* scored candidate; touch lifts the choice to the top of the primary
\* range, idle takes the lowest candidate.
BestRefreshRate(layers, globalSignals) ==
    LET candidates == CandidatesFor(layers)
        best == BestRefreshRateOf(layers, candidates)
        touchRefreshRate == mPrimaryRefreshRates[Len(mPrimaryRefreshRates)]
    IN  IF globalSignals.touch
        THEN (IF RefreshRates[best] < RefreshRates[touchRefreshRate]
              THEN touchRefreshRate ELSE best)
        ELSE IF globalSignals.idle THEN candidates[1]
        ELSE best

\* The history keeps the first call made under a policy setting; a later
\* one reads the same members.
getBestRefreshRate(layers, globalSignals) ==
    /\ selectOp = NoSelection
    /\ selectOp' = [op |-> "getBestRefreshRate", layers |-> layers,
                    globalSignals |-> globalSignals,
                    result |-> BestRefreshRate(layers, globalSignals)]
    /\ UNCHANGED <<mDisplayManagerPolicy, mOverridePolicy, mPrimaryRefreshRates,
                   mAppRequestRefreshRates, policyOp, acceptedDisplayManagerPolicy,
                   acceptedOverridePolicy, acceptedWhileOverridden>>
    /\ UNCHANGED exceptPolicyVars

SelectNext ==
    \/ \E policy \in SelectPolicyChoices : setDisplayManagerPolicy(policy)
    \/ \E policy \in {nullopt} \cup {Some(p) : p \in SelectPolicyChoices} : setOverridePolicy(policy)
    \/ \E layers \in LayerLists, globalSignals \in GlobalSignalsChoices :
           getBestRefreshRate(layers, globalSignals)

\* ---------------------------------------------------------------------------
\* AidlHalWrapper: the cached queries and the completion callbacks
\* ---------------------------------------------------------------------------
MaxVibratorCalls == 2
VibratorThreads == {1, 2}

\* The queries whose result the wrapper caches, each under its own mutex.
CacheQueries == {"getCapabilities", "getSupportedEffects", "getSupportedPrimitives"}
VibrateOps == {"on", "performEffect", "performComposedEffect"}

\* binder::Status of a HAL call: ok, EX_UNSUPPORTED_OPERATION or another
\* exception.
BinderStatuses == {"OK", "EX_UNSUPPORTED_OPERATION", "EX_SECURITY"}

\* What the HAL may answer to a query.
HalDataChoices == {1, 2}
HalData(query, choice) ==
    IF query = "getCapabilities"
    THEN (IF choice = 1 THEN {"ON_CALLBACK"} ELSE {"PERFORM_CALLBACK"})
    ELSE (IF choice = 1 THEN <<"CLICK">> ELSE <<"CLICK", "TICK">>)

\* HalResult<T>::ok, failed and unsupported.  HalResult<void> keeps mFailed
\* where HalResult<T> keeps an empty mValue; "void" stands for its value.
HalResultOk(value) == [mValue |-> Some(value), mUnsupported |-> FALSE]
HalResultFailed == [mValue |-> nullopt, mUnsupported |-> FALSE]
HalResultUnsupported == [mValue |-> nullopt, mUnsupported |-> TRUE]

\* HalResult<T>::fromStatus(binder::Status, T).
fromStatus(status, data) ==
    IF status = "EX_UNSUPPORTED_OPERATION" THEN HalResultUnsupported
    ELSE IF status = "OK" THEN HalResultOk(data)
    ELSE HalResultFailed

\* HalResult<T>::isOk.
isOk(result) == ~result.mUnsupported /\ result.mValue # nullopt

\* The capability that lets the HAL report the completion of an operation.
CallbackCapability(op) == IF op = "on" THEN "ON_CALLBACK" ELSE "PERFORM_CALLBACK"

\* A faulty variant of CacheAfterLoad: whatever the HAL answered is cached.
CacheAfterLoadAnyResult(cache, ret, data) == Some(data)

\* The cache after a load from the HAL: only an ok result is stored.
CacheAfterLoad(cache, ret, data) == IF isOk(ret) THEN ret.mValue ELSE cache

\* A faulty variant of ScheduledByWrapper: the result is not looked at.
ScheduledByWrapperAnyResult(supportsCallback, ret) == ~supportsCallback

\* Whether the wrapper hands the completion callback to the scheduler: the
\* HAL cannot report the completion and the call succeeded.
ScheduledByWrapper(supportsCallback, ret) == ~supportsCallback /\ isOk(ret)

VibratorIdle ==
    [pc |-> "idle", query |-> "none", op |-> "none", supportsCallback |-> FALSE]

VibratorInit ==
    /\ mCached = [query \in CacheQueries |-> nullopt]
    /\ cacheMutex = [query \in CacheQueries |-> 0]
    /\ vibratorPc = [t \in VibratorThreads |-> VibratorIdle]
    /\ halQueries = [query \in CacheQueries |-> <<>>]
    /\ queryReturns = [query \in CacheQueries |-> {}]
    /\ contended = {}
    /\ vibrations = <<>>
    /\ vibratorCalls = 0

\* A thread calls getCapabilities, getSupportedEffects or
\* getSupportedPrimitives.
callQuery(t, query) ==
    /\ vibratorPc[t].pc = "idle"
    /\ vibratorCalls < MaxVibratorCalls
    /\ vibratorCalls' = vibratorCalls + 1
    /\ vibratorPc' = [vibratorPc EXCEPT ![t] = [VibratorIdle EXCEPT !.pc = "lock",
                                                                    !.query = query]]
    /\ UNCHANGED <<mCached, cacheMutex, halQueries, queryReturns, contended, vibrations>>
    /\ UNCHANGED exceptVibratorVars

\* A thread calls on, performEffect or performComposedEffect: the first two
\* start with getCapabilities(), the last always passes the callback.
callVibrate(t, op) ==
    /\ vibratorPc[t].pc = "idle"
    /\ vibratorCalls < MaxVibratorCalls
    /\ vibratorCalls' = vibratorCalls + 1
    /\ vibratorPc' =
           [vibratorPc EXCEPT ![t] =
               IF op = "performComposedEffect"
               THEN [VibratorIdle EXCEPT !.pc = "vibrate", !.op = op, !.supportsCallback = TRUE]
               ELSE [VibratorIdle EXCEPT !.pc = "lock", !.query = "getCapabilities", !.op = op]]
    /\ UNCHANGED <<mCached, cacheMutex, halQueries, queryReturns, contended, vibrations>>
    /\ UNCHANGED exceptVibratorVars

\* std::lock_guard on the query's mutex.
lockCache(t) ==
    /\ vibratorPc[t].pc = "lock"
    /\ cacheMutex[vibratorPc[t].query] = 0
    /\ cacheMutex' = [cacheMutex EXCEPT ![vibratorPc[t].query] = t]
    /\ vibratorPc' = [vibratorPc EXCEPT ![t].pc = "load"]
    /\ contended' = IF \E u \in VibratorThreads \ {t} :
                           vibratorPc[u].pc = "lock" /\ vibratorPc[u].query = vibratorPc[t].query
                    THEN contended \cup {vibratorPc[t].query}
                    ELSE contended
    /\ UNCHANGED <<mCached, halQueries, queryReturns, vibrations, vibratorCalls>>
    /\ UNCHANGED exceptVibratorVars

\* The body of a cached query, under the mutex: the cached value if there
\* is one, otherwise the HAL's answer, cached if ok; then the mutex is
\* released.  on and performEffect go on with the capabilities they got.
loadCached(t, status, choice) ==
    /\ vibratorPc[t].pc = "load"
    /\ LET query == vibratorPc[t].query
           op == vibratorPc[t].op
           cached == mCached[query] # nullopt
           data == HalData(query, choice)
           ret == IF cached THEN HalResultOk(mCached[query][1]) ELSE fromStatus(status, data)
       IN  /\ mCached' = IF cached THEN mCached
                         ELSE [mCached EXCEPT ![query] = CacheAfterLoad(mCached[query], ret, data)]
           /\ halQueries' = IF cached THEN halQueries
                            ELSE [halQueries EXCEPT ![query] = Append(@, status)]
           /\ queryReturns' = IF isOk(ret)
                              THEN [queryReturns EXCEPT ![query] = @ \cup {ret.mValue[1]}]
                              ELSE queryReturns
           /\ cacheMutex' = [cacheMutex EXCEPT ![query] = 0]
           /\ vibratorPc' =
                  [vibratorPc EXCEPT ![t] =
                      IF op = "none" THEN VibratorIdle
                      ELSE [VibratorIdle EXCEPT
                               !.pc = "vibrate", !.op = op,
                               !.supportsCallback =
                                   isOk(ret) /\ CallbackCapability(op) \in ret.mValue[1]]]
    /\ UNCHANGED <<contended, vibrations, vibratorCalls>>
    /\ UNCHANGED exceptVibratorVars

\* The HAL call of on, performEffect or performComposedEffect.  The callback
\* is passed to the HAL if it supports callbacks, and a HAL that accepted
\* the call completes it later; otherwise the wrapper schedules the
\* callback, if the call succeeded.
halVibrate(t, status) ==
    /\ vibratorPc[t].pc = "vibrate"
    /\ LET supportsCallback == vibratorPc[t].supportsCallback
           ret == fromStatus(status, "void")
       IN  vibrations' = Append(vibrations,
               [op |-> vibratorPc[t].op, result |-> ret,
                supportsCallback |-> supportsCallback,
                pendingHal |-> supportsCallback /\ status = "OK",
                pendingScheduler |-> ScheduledByWrapper(supportsCallback, ret),
                callbackCounter |-> 0, invokedBy |-> {}])
    /\ vibratorPc' = [vibratorPc EXCEPT ![t] = VibratorIdle]
    /\ UNCHANGED <<mCached, cacheMutex, halQueries, queryReturns, contended, vibratorCalls>>
    /\ UNCHANGED exceptVibratorVars

\* HalCallbackWrapper::onComplete, called by the HAL.
onComplete(i) ==
    /\ i <= Len(vibrations)
    /\ vibrations[i].pendingHal
    /\ vibrations' = [vibrations EXCEPT ![i].pendingHal = FALSE,
                                        ![i].callbackCounter = @ + 1,
                                        ![i].invokedBy = @ \cup {"HAL"}]
    /\ UNCHANGED <<mCached, cacheMutex, vibratorPc, halQueries, queryReturns, contended,
                   vibratorCalls>>
    /\ UNCHANGED exceptVibratorVars

\* The CallbackScheduler runs a callback it was given.
schedulerFires(i) ==
    /\ i <= Len(vibrations)
    /\ vibrations[i].pendingScheduler
    /\ vibrations' = [vibrations EXCEPT ![i].pendingScheduler = FALSE,
                                        ![i].callbackCounter = @ + 1,
                                        ![i].invokedBy = @ \cup {"CallbackScheduler"}]
    /\ UNCHANGED <<mCached, cacheMutex, vibratorPc, halQueries, queryReturns, contended,
                   vibratorCalls>>
    /\ UNCHANGED exceptVibratorVars

VibratorNext ==
    \/ \E t \in VibratorThreads, query \in CacheQueries : callQuery(t, query)
    \/ \E t \in VibratorThreads, op \in VibrateOps : callVibrate(t, op)
    \/ \E t \in VibratorThreads : lockCache(t)
    \/ \E t \in VibratorThreads, status \in BinderStatuses, choice \in HalDataChoices :
           loadCached(t, status, choice)
    \/ \E t \in VibratorThreads, status \in BinderStatuses : halVibrate(t, status)
    \/ \E i \in 1..MaxVibratorCalls : onComplete(i)
    \/ \E i \in 1..MaxVibratorCalls : schedulerFires(i)

\* ---------------------------------------------------------------------------
\* The timing core's mutexes: what each entry point locks, in order
\* ---------------------------------------------------------------------------
\* The threads calling into the timing core, and the SurfaceFrames they reach.
CoreThreads == {1, 2, 3}
CoreSurfaceFrames == 1..2

TokenManagerMutex == "TokenManager::mMutex"

\* The mutex of the FrameTimeline, of its TokenManager, of SurfaceFrame i.
FrameTimelineLock == <<FrameTimelineMutex, 0>>
TokenManagerLock == <<TokenManagerMutex, 0>>
SurfaceFrameLock(i) == <<SurfaceFrameMutex, i>>
CoreMutexes == {FrameTimelineLock, TokenManagerLock} \cup {SurfaceFrameLock(i) : i \in CoreSurfaceFrames}

\* std::scoped_lock lock(mutex) around a body: lock, the body's own locking,
\* unlock at the end of the scope.
Locked(mutex, body) ==
    <<[kind |-> "lock", mutex |-> mutex]>> \o body \o <<[kind |-> "unlock", mutex |-> mutex]>>

\* The locking of a loop: that of its iterations, one after the other.
RECURSIVE LoopLocks(_)
LoopLocks(iterations) ==
    IF iterations = <<>> THEN <<>> ELSE Head(iterations) \o LoopLocks(Tail(iterations))

\* TokenManager::generateTokenForPredictions and getPredictionsForToken.
generateTokenForPredictionsLocks == Locked(TokenManagerLock, <<>>)
getPredictionsForTokenLocks == Locked(TokenManagerLock, <<>>)

\* The SurfaceFrame setters and getters: scoped_lock on the frame's mMutex.
SurfaceFrameAccessLocks(i) == Locked(SurfaceFrameLock(i), <<>>)

\* SurfaceFrame::onPresent.
SurfaceFrameOnPresentLocks(i) == Locked(SurfaceFrameLock(i), <<>>)

\* SurfaceFrame::trace: each of its four Trace lambdas locks mMutex, and a
\* lambda runs only while a tracing session is on. The first one finds the
\* frame's token or the display frame's token missing and trace returns
\* after it.
SurfaceFrameTraceLocks(i, session, hasTokens) ==
    IF ~session THEN <<>>
    ELSE IF ~hasTokens THEN Locked(SurfaceFrameLock(i), <<>>)
    ELSE Locked(SurfaceFrameLock(i), <<>>) \o Locked(SurfaceFrameLock(i), <<>>)
             \o Locked(SurfaceFrameLock(i), <<>>) \o Locked(SurfaceFrameLock(i), <<>>)

\* What the flush finds when it traces a display frame: whether a tracing
\* session is on, whether the display frame has a token, and which of its
\* SurfaceFrames have one.
TraceCases ==
    [session : BOOLEAN, displayToken : BOOLEAN, surfaceTokens : [CoreSurfaceFrames -> BOOLEAN]]

\* DisplayFrame::onPresent and then DisplayFrame::trace over the frame's
\* SurfaceFrames; the DisplayFrame has no mutex of its own. trace returns
\* before its loop when its first lambda finds the display frame's token
\* missing.
DisplayFrameOnPresentLocks(case) ==
    LoopLocks([i \in CoreSurfaceFrames |-> SurfaceFrameOnPresentLocks(i)])
        \o IF case.session /\ ~case.displayToken THEN <<>>
           ELSE LoopLocks([i \in CoreSurfaceFrames |->
                              SurfaceFrameTraceLocks(i, case.session, case.surfaceTokens[i])])

\* The loop of DisplayFrame::getBaseTime, of dumpJank's getJankType test and
\* of dump over the frame's SurfaceFrames, as far as the upTo-th.
DisplayFrameAccessLocks(upTo) == LoopLocks([i \in 1..upTo |-> SurfaceFrameAccessLocks(i)])

\* FrameTimeline::createSurfaceFrameForToken takes no FrameTimeline lock,
\* and looks the predictions up unless the vsync id is INVALID_VSYNC_ID.
createSurfaceFrameForTokenLocks(hasToken) ==
    IF hasToken THEN getPredictionsForTokenLocks ELSE <<>>

\* FrameTimeline::addSurfaceFrame and setMaxDisplayFrames.
addSurfaceFrameLocks == Locked(FrameTimelineLock, <<>>)
setMaxDisplayFramesLocks == Locked(FrameTimelineLock, <<>>)

\* A faulty variant of setSfWakeUpLocks: the predictions are looked up with
\* the TokenManager locked around the FrameTimeline.
setSfWakeUpLocksTokenFirst == Locked(TokenManagerLock, Locked(FrameTimelineLock, <<>>))

\* FrameTimeline::setSfWakeUp: getPredictionsForToken is called with mMutex held.
setSfWakeUpLocks == Locked(FrameTimelineLock, getPredictionsForTokenLocks)

\* FrameTimeline::setSfPresent: with mMutex held, the flush runs onPresent
\* and trace of the display frame if its fence has signalled; a pending or
\* invalid fence leaves the display frame alone.
setSfPresentLocks(signalled, case) ==
    Locked(FrameTimelineLock, IF signalled THEN DisplayFrameOnPresentLocks(case) ELSE <<>>)

\* FrameTimeline::dumpAll over a history that is empty or holds the display
\* frame: getBaseTime of the first frame, then dump.
dumpAllLocks(emptyHistory) ==
    LET all == Cardinality(CoreSurfaceFrames) IN
    Locked(FrameTimelineLock,
           IF emptyHistory THEN <<>>
           ELSE DisplayFrameAccessLocks(all) \o DisplayFrameAccessLocks(all))

\* The SurfaceFrame at which DisplayFrame::dumpJank's getJankType loop
\* breaks, or none.
JankySurfaceFrameChoices == CoreSurfaceFrames \cup {0}

\* FrameTimeline::dumpJank: getBaseTime of the first frame; a display frame
\* without jank of its own asks its SurfaceFrames for theirs until one is
\* janky, and is dumped only if one is.
dumpJankLocks(emptyHistory, displayJanky, jankySurfaceFrame) ==
    LET all == Cardinality(CoreSurfaceFrames) IN
    Locked(FrameTimelineLock,
           IF emptyHistory THEN <<>>
           ELSE DisplayFrameAccessLocks(all)
                    \o IF displayJanky THEN DisplayFrameAccessLocks(all)
                       ELSE IF jankySurfaceFrame = 0 THEN DisplayFrameAccessLocks(all)
                       ELSE DisplayFrameAccessLocks(jankySurfaceFrame)
                                \o DisplayFrameAccessLocks(all))

\* The entry points of the timing core, with what each locks.
CoreLockPrograms ==
    {addSurfaceFrameLocks, setSfWakeUpLocks, setMaxDisplayFramesLocks,
     generateTokenForPredictionsLocks}
        \cup {createSurfaceFrameForTokenLocks(hasToken) : hasToken \in BOOLEAN}
        \cup {dumpAllLocks(emptyHistory) : emptyHistory \in BOOLEAN}
        \cup {dumpJankLocks(emptyHistory, displayJanky, jankySurfaceFrame) :
                  emptyHistory \in BOOLEAN, displayJanky \in BOOLEAN,
                  jankySurfaceFrame \in JankySurfaceFrameChoices}
        \cup {SurfaceFrameAccessLocks(i) : i \in CoreSurfaceFrames}
        \cup {setSfPresentLocks(signalled, case) : signalled \in BOOLEAN, case \in TraceCases}

\* The mutexes thread t holds.
HeldBy(t) == {m \in CoreMutexes : coreLocks[m] = t}

\* No thread is inside the timing core.
LockInit ==
    /\ coreLocks = [m \in CoreMutexes |-> 0]
    /\ corePc = [t \in CoreThreads |-> <<>>]
    /\ coreNestings = {}

\* Thread t enters one of the entry points.
coreCall(t, program) ==
    /\ corePc[t] = <<>>
    /\ corePc' = [corePc EXCEPT ![t] = program]
    /\ UNCHANGED <<coreLocks, coreNestings>>
    /\ UNCHANGED exceptLockVars

\* std::scoped_lock's constructor: blocks until the mutex is free.
coreLock(t) ==
    /\ corePc[t] # <<>>
    /\ Head(corePc[t]).kind = "lock"
    /\ coreLocks[Head(corePc[t]).mutex] = 0
    /\ coreLocks' = [coreLocks EXCEPT ![Head(corePc[t]).mutex] = t]
    /\ coreNestings' = coreNestings \cup {<<held, Head(corePc[t]).mutex>> : held \in HeldBy(t)}
    /\ corePc' = [corePc EXCEPT ![t] = Tail(@)]
    /\ UNCHANGED exceptLockVars

\* std::scoped_lock's destructor.
coreUnlock(t) ==
    /\ corePc[t] # <<>>
    /\ Head(corePc[t]).kind = "unlock"
    /\ coreLocks' = [coreLocks EXCEPT ![Head(corePc[t]).mutex] = 0]
    /\ corePc' = [corePc EXCEPT ![t] = Tail(@)]
    /\ UNCHANGED coreNestings
    /\ UNCHANGED exceptLockVars

LockNext ==
    \/ \E t \in CoreThreads, program \in CoreLockPrograms : coreCall(t, program)
    \/ \E t \in CoreThreads : coreLock(t)
    \/ \E t \in CoreThreads : coreUnlock(t)

\* ---------------------------------------------------------------------------
\* RegionSamplingThread and its SamplingOffsetCallback
\* ---------------------------------------------------------------------------
\* constexpr auto maxRegionSamplingSkips = 10.
maxRegionSamplingSkips == 10

\* The deferrals followed between two sample requests.
MaxDeferrals == 12

\* The composition thread (notifyNewContent), the idle timer's thread
\* (checkForStaleLuma), the vsync source's thread (onVSyncEvent) and the
\* sampling thread itself (threadMain).
SamplingThreads == {"content", "timer", "vsync", "main"}
NoThread == "none"

ThreadControlMutex == "RegionSamplingThread::mThreadControlMutex"
CallbackMutex == "SamplingOffsetCallback::mMutex"
SamplingMutexes == {ThreadControlMutex, CallbackMutex}

SamplingHeldBy(t) == {m \in SamplingMutexes : samplingLocks[m] = t}

\* std::lock_guard / std::unique_lock constructor by thread t on a free mutex.
SamplingAcquire(t, mutex) ==
    /\ samplingLocks[mutex] = NoThread
    /\ samplingLocks' = [samplingLocks EXCEPT ![mutex] = t]
    /\ samplingNestings' = samplingNestings \cup {<<held, mutex>> : held \in SamplingHeldBy(t)}

\* Thread t releases the mutexes in the set.
SamplingRelease(t, mutexes) ==
    /\ samplingLocks' = [m \in SamplingMutexes |-> IF m \in mutexes THEN NoThread ELSE samplingLocks[m]]
    /\ UNCHANGED samplingNestings

\* The state after the constructor: nothing discarded, the listener off, the
\* sampling thread started and about to lock mThreadControlMutex.
SamplingInit ==
    /\ mDiscardedFrames = 0
    /\ mSampleRequested = FALSE
    /\ mVsyncListening = FALSE
    /\ mPhaseIntervalSetting = "ZERO"
    /\ samplingLocks = [m \in SamplingMutexes |-> NoThread]
    /\ samplingPc = [t \in SamplingThreads |-> IF t = "main" THEN "lock" ELSE "idle"]
    /\ samplingNestings = {}
    /\ deferralsSinceSample = 0
    /\ deferralsSinceReset = 0

\* A faulty variant of MayDefer: the limit itself still defers.
MayDeferInclusive(discardedFrames) == discardedFrames <= maxRegionSamplingSkips

\* doSample: 'if (mDiscardedFrames < maxRegionSamplingSkips)'.
MayDefer(discardedFrames) == discardedFrames < maxRegionSamplingSkips

\* A faulty variant of CallbackOwnerAtNotify: the callback's mutex is still
\* held when notifySamplingOffset is called.
CallbackOwnerAtNotifyStillLocked(t) == t

\* onVSyncEvent: 'lock.unlock()' before notifySamplingOffset: who holds the
\* callback's mutex when thread t makes the call.
CallbackOwnerAtNotify(t) == NoThread

\* RegionSamplingThread::notifyNewContent: the composition thread calls doSample.
notifyNewContent ==
    /\ samplingPc["content"] = "idle"
    /\ samplingPc' = [samplingPc EXCEPT !["content"] = "doSample"]
    /\ UNCHANGED <<mDiscardedFrames, mSampleRequested, mVsyncListening, mPhaseIntervalSetting,
                   samplingLocks, samplingNestings, deferralsSinceSample, deferralsSinceReset>>
    /\ UNCHANGED exceptSamplingVars

\* RegionSamplingThread::doSample up to its return or its call of
\* stopVsyncListener. The clock and the scheduler are inputs: whether the
\* sampling period has elapsed since the last sample, and whether less than
\* timeForRegionSampling is left before the next vsync.
doSample(t, periodElapsed, littleTimeLeft) ==
    /\ samplingPc[t] = "doSample"
    /\ SamplingAcquire(t, ThreadControlMutex)
    /\ IF ~periodElapsed
       THEN /\ mDiscardedFrames' = IF mDiscardedFrames = 0 THEN 1 ELSE mDiscardedFrames
            /\ samplingPc' = [samplingPc EXCEPT ![t] = "return"]
            /\ UNCHANGED <<deferralsSinceSample, deferralsSinceReset>>
       ELSE IF MayDefer(mDiscardedFrames) /\ littleTimeLeft
       THEN /\ deferralsSinceSample < MaxDeferrals
            /\ mDiscardedFrames' = mDiscardedFrames + 1
            /\ deferralsSinceSample' = deferralsSinceSample + 1
            /\ deferralsSinceReset' = deferralsSinceReset + 1
            /\ samplingPc' = [samplingPc EXCEPT ![t] = "return"]
       ELSE /\ mDiscardedFrames' = 0
            /\ deferralsSinceReset' = 0
            /\ samplingPc' = [samplingPc EXCEPT ![t] = "stopVsyncListener"]
            /\ UNCHANGED deferralsSinceSample
    /\ UNCHANGED <<mSampleRequested, mVsyncListening, mPhaseIntervalSetting>>
    /\ UNCHANGED exceptSamplingVars

\* SamplingOffsetCallback::stopVsyncListener, called by doSample, with its
\* mutex locked.
stopVsyncListener(t) ==
    /\ samplingPc[t] = "stopVsyncListener"
    /\ SamplingAcquire(t, CallbackMutex)
    /\ mVsyncListening' = FALSE
    /\ samplingPc' = [samplingPc EXCEPT ![t] = "stopVsyncListenerReturn"]
    /\ UNCHANGED <<mDiscardedFrames, mSampleRequested, mPhaseIntervalSetting,
                   deferralsSinceSample, deferralsSinceReset>>
    /\ UNCHANGED exceptSamplingVars

\* startVsyncListener or stopVsyncListener returns: its lock_guard releases
\* the callback's mutex, the caller still holding mThreadControlMutex.
vsyncListenerReturn(t) ==
    /\ samplingPc[t] \in {"startVsyncListenerReturn", "stopVsyncListenerReturn"}
    /\ SamplingRelease(t, {CallbackMutex})
    /\ samplingPc' = [samplingPc EXCEPT
                          ![t] = IF @ = "stopVsyncListenerReturn" THEN "requestSample" ELSE "return"]
    /\ UNCHANGED <<mDiscardedFrames, mSampleRequested, mVsyncListening, mPhaseIntervalSetting,
                   deferralsSinceSample, deferralsSinceReset>>
    /\ UNCHANGED exceptSamplingVars

\* The end of doSample after stopVsyncListener: mSampleRequested is set and
\* the sampling thread notified.
requestSample(t) ==
    /\ samplingPc[t] = "requestSample"
    /\ UNCHANGED <<samplingLocks, samplingNestings>>
    /\ mSampleRequested' = TRUE
    /\ deferralsSinceSample' = 0
    /\ samplingPc' = [samplingPc EXCEPT ![t] = "return"]
    /\ UNCHANGED <<mDiscardedFrames, mVsyncListening, mPhaseIntervalSetting, deferralsSinceReset>>
    /\ UNCHANGED exceptSamplingVars

\* The end of doSample, checkForStaleLuma or onVSyncEvent: the guards still
\* in scope release their mutexes.
samplingReturn(t) ==
    /\ samplingPc[t] = "return"
    /\ SamplingRelease(t, SamplingHeldBy(t))
    /\ samplingPc' = [samplingPc EXCEPT ![t] = "idle"]
    /\ UNCHANGED <<mDiscardedFrames, mSampleRequested, mVsyncListening, mPhaseIntervalSetting,
                   deferralsSinceSample, deferralsSinceReset>>
    /\ UNCHANGED exceptSamplingVars

\* The idle timer's timeout callback: '[this] { checkForStaleLuma(); }'.
idleTimerFires ==
    /\ samplingPc["timer"] = "idle"
    /\ samplingPc' = [samplingPc EXCEPT !["timer"] = "checkForStaleLuma"]
    /\ UNCHANGED <<mDiscardedFrames, mSampleRequested, mVsyncListening, mPhaseIntervalSetting,
                   samplingLocks, samplingNestings, deferralsSinceSample, deferralsSinceReset>>
    /\ UNCHANGED exceptSamplingVars

\* RegionSamplingThread::checkForStaleLuma up to its return or its call of
\* startVsyncListener.
checkForStaleLuma ==
    /\ samplingPc["timer"] = "checkForStaleLuma"
    /\ SamplingAcquire("timer", ThreadControlMutex)
    /\ IF mDiscardedFrames > 0
       THEN /\ mDiscardedFrames' = 0
            /\ deferralsSinceReset' = 0
            /\ samplingPc' = [samplingPc EXCEPT !["timer"] = "startVsyncListener"]
       ELSE /\ samplingPc' = [samplingPc EXCEPT !["timer"] = "return"]
            /\ UNCHANGED <<mDiscardedFrames, deferralsSinceReset>>
    /\ UNCHANGED <<mSampleRequested, mVsyncListening, mPhaseIntervalSetting, deferralsSinceSample>>
    /\ UNCHANGED exceptSamplingVars

\* SamplingOffsetCallback::startVsyncListener, called by checkForStaleLuma,
\* with its mutex locked.
startVsyncListener ==
    /\ samplingPc["timer"] = "startVsyncListener"
    /\ SamplingAcquire("timer", CallbackMutex)
    /\ mPhaseIntervalSetting' = IF mVsyncListening THEN mPhaseIntervalSetting ELSE "ZERO"
    /\ mVsyncListening' = TRUE
    /\ samplingPc' = [samplingPc EXCEPT !["timer"] = "startVsyncListenerReturn"]
    /\ UNCHANGED <<mDiscardedFrames, mSampleRequested, deferralsSinceSample, deferralsSinceReset>>
    /\ UNCHANGED exceptSamplingVars

\* The vsync source, enabled, delivers an event to its callback.
vsyncFires ==
    /\ samplingPc["vsync"] = "idle"
    /\ mVsyncListening
    /\ samplingPc' = [samplingPc EXCEPT !["vsync"] = "onVSyncEvent"]
    /\ UNCHANGED <<mDiscardedFrames, mSampleRequested, mVsyncListening, mPhaseIntervalSetting,
                   samplingLocks, samplingNestings, deferralsSinceSample, deferralsSinceReset>>
    /\ UNCHANGED exceptSamplingVars

\* SamplingOffsetCallback::onVSyncEvent with its mutex locked: the zero
\* phase moves to the sampling phase; the sampling phase moves back, stops
\* the listener and goes on to notify the sampling thread.
onVSyncEvent ==
    /\ samplingPc["vsync"] = "onVSyncEvent"
    /\ SamplingAcquire("vsync", CallbackMutex)
    /\ IF mPhaseIntervalSetting = "ZERO"
       THEN /\ mPhaseIntervalSetting' = "SAMPLING"
            /\ samplingPc' = [samplingPc EXCEPT !["vsync"] = "return"]
            /\ UNCHANGED mVsyncListening
       ELSE /\ mPhaseIntervalSetting' = "ZERO"
            /\ mVsyncListening' = FALSE
            /\ samplingPc' = [samplingPc EXCEPT !["vsync"] = "notifySamplingOffset"]
    /\ UNCHANGED <<mDiscardedFrames, mSampleRequested, deferralsSinceSample, deferralsSinceReset>>
    /\ UNCHANGED exceptSamplingVars

\* onVSyncEvent: 'lock.unlock(); mRegionSamplingThread.notifySamplingOffset()',
\* which calls doSample.
notifySamplingOffset ==
    /\ samplingPc["vsync"] = "notifySamplingOffset"
    /\ samplingLocks' = [samplingLocks EXCEPT ![CallbackMutex] = CallbackOwnerAtNotify("vsync")]
    /\ samplingPc' = [samplingPc EXCEPT !["vsync"] = "doSample"]
    /\ UNCHANGED <<mDiscardedFrames, mSampleRequested, mVsyncListening, mPhaseIntervalSetting,
                   samplingNestings, deferralsSinceSample, deferralsSinceReset>>
    /\ UNCHANGED exceptSamplingVars

\* threadMain locks mThreadControlMutex: at its start, after captureSample,
\* or woken from mCondition.wait by a requested sample.
threadMainLock ==
    /\ \/ samplingPc["main"] = "lock"
       \/ samplingPc["main"] = "wait" /\ mSampleRequested
    /\ SamplingAcquire("main", ThreadControlMutex)
    /\ samplingPc' = [samplingPc EXCEPT !["main"] = "loop"]
    /\ UNCHANGED <<mDiscardedFrames, mSampleRequested, mVsyncListening, mPhaseIntervalSetting,
                   deferralsSinceSample, deferralsSinceReset>>
    /\ UNCHANGED exceptSamplingVars

\* threadMain's loop body with the mutex held: a requested sample is taken
\* over and the mutex unlocked for captureSample; otherwise mCondition.wait
\* releases the mutex.
threadMainLoop ==
    /\ samplingPc["main"] = "loop"
    /\ SamplingRelease("main", {ThreadControlMutex})
    /\ mSampleRequested' = FALSE
    /\ samplingPc' = [samplingPc EXCEPT !["main"] = IF mSampleRequested THEN "captureSample" ELSE "wait"]
    /\ UNCHANGED <<mDiscardedFrames, mVsyncListening, mPhaseIntervalSetting,
                   deferralsSinceSample, deferralsSinceReset>>
    /\ UNCHANGED exceptSamplingVars

\* captureSample runs with mThreadControlMutex unlocked.
captureSample ==
    /\ samplingPc["main"] = "captureSample"
    /\ samplingPc' = [samplingPc EXCEPT !["main"] = "lock"]
    /\ UNCHANGED <<mDiscardedFrames, mSampleRequested, mVsyncListening, mPhaseIntervalSetting,
                   samplingLocks, samplingNestings, deferralsSinceSample, deferralsSinceReset>>
    /\ UNCHANGED exceptSamplingVars

SamplingNext ==
    \/ notifyNewContent
    \/ \E t \in {"content", "vsync"}, periodElapsed \in BOOLEAN, littleTimeLeft \in BOOLEAN :
        doSample(t, periodElapsed, littleTimeLeft)
    \/ \E t \in {"content", "vsync"} : stopVsyncListener(t)
    \/ \E t \in {"content", "timer", "vsync"} : vsyncListenerReturn(t)
    \/ \E t \in {"content", "vsync"} : requestSample(t)
    \/ \E t \in {"content", "timer", "vsync"} : samplingReturn(t)
    \/ idleTimerFires
    \/ checkForStaleLuma
    \/ startVsyncListener
    \/ vsyncFires
    \/ onVSyncEvent
    \/ notifySamplingOffset
    \/ threadMainLock
    \/ threadMainLoop
    \/ captureSample

\* ---------------------------------------------------------------------------
\* ServiceManagerShim: registration callbacks and waitForService
\* ---------------------------------------------------------------------------
\* The callback objects created in a run.
MaxWaiters == 2

ServiceNames == {"svc1", "svc2"}
ShimCallbacks == {"cb1", "cb2"}
nullptr == "nullptr"
NoWaiter == 0
UNKNOWN_ERROR == "UNKNOWN_ERROR"

\* What realGetService reports: an error status, no binder yet, or the binder.
GetServiceOutcomes == {"error", "null", "found"}

\* A faulty variant of DeferRuns: only the return with the delivered binder
\* unregisters.
DeferRunsOnDeliveryOnly(returnPath) == returnPath = "delivered"

\* waitForService: 'Defer unregister([&] { ...unregisterForNotifications(name,
\* waiter); })' runs its function when the scope is left, on any return path.
DeferRuns(returnPath) == TRUE

\* mUnifiedServiceManager->unregisterForNotifications(name, waiter) with the
\* status the backend answers: the callbacks registered afterwards.
BackendUnregister(callbacks, name, waiter, ok) ==
    IF ok THEN callbacks \ {<<name, waiter>>} ELSE callbacks

\* removeRegistrationCallbackLocked: every pair of cb is erased from the
\* vector; *waiter is assigned at each, so it ends as the last one's waiter.
removeRegistrationCallbackLocked(pairs, cb) ==
    LET Others(pair) == pair.cb # cb
        matches == {i \in 1..Len(pairs) : pairs[i].cb = cb}
    IN [pairs |-> SelectSeq(pairs, Others),
        waiter |-> IF matches = {} THEN NoWaiter
                   ELSE pairs[CHOOSE i \in matches : \A j \in matches : j <= i].waiter]

NoShimOp == [op |-> "none", name |-> "none", cb |-> "none", status |-> "none"]
NoWaitCall ==
    [pc |-> "idle", name |-> "none", waiter |-> NoWaiter, mBinder |-> FALSE, returnPath |-> "none",
     unregisterCalls |-> 0, unregistered |-> FALSE]

\* A new shim: nothing registered, no call made.
ShimInit ==
    /\ mNameToRegistrationCallback = [name \in ServiceNames |-> <<>>]
    /\ backendCallbacks = {}
    /\ createdWaiters = <<>>
    /\ shimOp = NoShimOp
    /\ waitCall = NoWaitCall

\* ServiceManagerShim::registerForNotifications; backendOk is the status of
\* the backend's registerForNotifications.
registerForNotifications(name, cb, backendOk) ==
    /\ Len(createdWaiters) < MaxWaiters
    /\ IF cb = nullptr
       THEN /\ shimOp' = [op |-> "registerForNotifications", name |-> name, cb |-> cb, status |-> BAD_VALUE]
            /\ UNCHANGED <<mNameToRegistrationCallback, backendCallbacks, createdWaiters>>
       ELSE LET registrationWaiter == Len(createdWaiters) + 1 IN
            /\ createdWaiters' = Append(createdWaiters, [name |-> name, cb |-> cb])
            /\ IF ~backendOk
               THEN /\ shimOp' = [op |-> "registerForNotifications", name |-> name, cb |-> cb,
                                  status |-> UNKNOWN_ERROR]
                    /\ UNCHANGED <<mNameToRegistrationCallback, backendCallbacks>>
               ELSE /\ backendCallbacks' = backendCallbacks \cup {<<name, registrationWaiter>>}
                    /\ mNameToRegistrationCallback' =
                           [mNameToRegistrationCallback EXCEPT
                               ![name] = Append(@, [cb |-> cb, waiter |-> registrationWaiter])]
                    /\ shimOp' = [op |-> "registerForNotifications", name |-> name, cb |-> cb,
                                  status |-> NO_ERROR]
    /\ UNCHANGED waitCall
    /\ UNCHANGED exceptShimVars

\* ServiceManagerShim::unregisterForNotifications; backendOk is the status
\* of the backend's unregisterForNotifications.
unregisterForNotifications(name, cb, backendOk) ==
    LET removed == removeRegistrationCallbackLocked(mNameToRegistrationCallback[name], cb) IN
    /\ IF cb = nullptr \/ mNameToRegistrationCallback[name] = <<>>
       THEN /\ shimOp' = [op |-> "unregisterForNotifications", name |-> name, cb |-> cb, status |-> BAD_VALUE]
            /\ UNCHANGED <<mNameToRegistrationCallback, backendCallbacks>>
       ELSE /\ mNameToRegistrationCallback' = [mNameToRegistrationCallback EXCEPT ![name] = removed.pairs]
            /\ IF removed.waiter = NoWaiter
               THEN /\ shimOp' = [op |-> "unregisterForNotifications", name |-> name, cb |-> cb,
                                  status |-> BAD_VALUE]
                    /\ UNCHANGED backendCallbacks
               ELSE /\ backendCallbacks' = BackendUnregister(backendCallbacks, name, removed.waiter, backendOk)
                    /\ shimOp' = [op |-> "unregisterForNotifications", name |-> name, cb |-> cb,
                                  status |-> IF backendOk THEN NO_ERROR ELSE UNKNOWN_ERROR]
    /\ UNCHANGED <<createdWaiters, waitCall>>
    /\ UNCHANGED exceptShimVars

\* ServiceManagerShim::waitForService up to its Waiter: the first
\* realGetService returns an error or the service, or a Waiter is made.
waitForService(name, getService) ==
    /\ waitCall.pc \in {"idle", "returned"}
    /\ Len(createdWaiters) < MaxWaiters
    /\ IF getService = "error"
       THEN /\ waitCall' = [NoWaitCall EXCEPT !.pc = "returned", !.name = name, !.returnPath = "error"]
            /\ UNCHANGED createdWaiters
       ELSE IF getService = "found"
       THEN /\ waitCall' = [NoWaitCall EXCEPT !.pc = "returned", !.name = name, !.returnPath = "found"]
            /\ UNCHANGED createdWaiters
       ELSE LET waiter == Len(createdWaiters) + 1 IN
            /\ createdWaiters' = Append(createdWaiters, [name |-> name, cb |-> "Waiter"])
            /\ waitCall' = [NoWaitCall EXCEPT !.pc = "register", !.name = name, !.waiter = waiter]
    /\ UNCHANGED <<mNameToRegistrationCallback, backendCallbacks, shimOp>>
    /\ UNCHANGED exceptShimVars

\* waitForService registers its Waiter with the backend; a refusal returns
\* nullptr before the deferred unregistration exists.
waitForServiceRegister(backendOk) ==
    /\ waitCall.pc = "register"
    /\ IF backendOk
       THEN /\ backendCallbacks' = backendCallbacks \cup {<<waitCall.name, waitCall.waiter>>}
            /\ waitCall' = [waitCall EXCEPT !.pc = "waiting"]
       ELSE /\ waitCall' = [waitCall EXCEPT !.pc = "returned", !.returnPath = "notRegistered"]
            /\ UNCHANGED backendCallbacks
    /\ UNCHANGED <<mNameToRegistrationCallback, createdWaiters, shimOp>>
    /\ UNCHANGED exceptShimVars

\* Waiter::onRegistration, called by the backend on a binder thread while
\* the waiter is registered and waitForService has not returned.
onRegistration ==
    /\ waitCall.pc \in {"waiting", "getService", "return"}
    /\ <<waitCall.name, waitCall.waiter>> \in backendCallbacks
    /\ waitCall' = [waitCall EXCEPT !.mBinder = TRUE]
    /\ UNCHANGED <<mNameToRegistrationCallback, backendCallbacks, createdWaiters, shimOp>>
    /\ UNCHANGED exceptShimVars

\* A round of waitForService's loop up to the end of its locked block:
\* wait_for ends and a delivered binder is returned.
waitForServiceLoop ==
    /\ waitCall.pc = "waiting"
    /\ waitCall' = IF waitCall.mBinder
                   THEN [waitCall EXCEPT !.pc = "return", !.returnPath = "delivered"]
                   ELSE [waitCall EXCEPT !.pc = "getService"]
    /\ UNCHANGED <<mNameToRegistrationCallback, backendCallbacks, createdWaiters, shimOp>>
    /\ UNCHANGED exceptShimVars

\* The rest of the round: realGetService is tried again; an error or the
\* service ends the loop, else the next round begins.
waitForServiceRetry(getService) ==
    /\ waitCall.pc = "getService"
    /\ waitCall' = IF getService = "error"
                   THEN [waitCall EXCEPT !.pc = "return", !.returnPath = "retryError"]
                   ELSE IF getService = "found"
                   THEN [waitCall EXCEPT !.pc = "return", !.returnPath = "retryFound"]
                   ELSE [waitCall EXCEPT !.pc = "waiting"]
    /\ UNCHANGED <<mNameToRegistrationCallback, backendCallbacks, createdWaiters, shimOp>>
    /\ UNCHANGED exceptShimVars

\* waitForService returns from its loop: the deferred function asks the
\* backend to unregister the waiter, whatever it answers, before the return.
waitForServiceReturn(backendOk) ==
    /\ waitCall.pc = "return"
    /\ waitCall' = [waitCall EXCEPT
                       !.pc = "returned",
                       !.unregisterCalls = IF DeferRuns(waitCall.returnPath) THEN @ + 1 ELSE @,
                       !.unregistered = DeferRuns(waitCall.returnPath) /\ backendOk]
    /\ backendCallbacks' =
           IF DeferRuns(waitCall.returnPath)
           THEN BackendUnregister(backendCallbacks, waitCall.name, waitCall.waiter, backendOk)
           ELSE backendCallbacks
    /\ UNCHANGED <<mNameToRegistrationCallback, createdWaiters, shimOp>>
    /\ UNCHANGED exceptShimVars

ShimNext ==
    \/ \E name \in ServiceNames, cb \in ShimCallbacks \cup {nullptr}, backendOk \in BOOLEAN :
        registerForNotifications(name, cb, backendOk)
    \/ \E name \in ServiceNames, cb \in ShimCallbacks \cup {nullptr}, backendOk \in BOOLEAN :
        unregisterForNotifications(name, cb, backendOk)
    \/ \E name \in ServiceNames, getService \in GetServiceOutcomes :
        waitForService(name, getService)
    \/ \E backendOk \in BOOLEAN : waitForServiceRegister(backendOk)
    \/ onRegistration
    \/ waitForServiceLoop
    \/ \E getService \in GetServiceOutcomes : waitForServiceRetry(getService)
    \/ \E backendOk \in BOOLEAN : waitForServiceReturn(backendOk)

\* ---------------------------------------------------------------------------
\* Specifications
\* ---------------------------------------------------------------------------
vars == <<tokenVars, timelineVars, jankVars, historyVars, policyVars, vibratorVars, lockVars, samplingVars, shimVars>>

\* The SurfaceFrame / DisplayFrame scenario at rest, for the specifications
\* that are not about it.
JankIdle ==
    /\ thresholds = [presentThreshold |-> 1, deadlineThreshold |-> 1, startThreshold |-> 1]
    /\ surfaceFrame = createSurfaceFrameForToken(FALSE, nullopt)
    /\ owningDisplayFrame = NewOwningDisplayFrame
    /\ aborted = FALSE
    /\ setPresentStateCalls = 0
    /\ firstSetPresentState = <<>>
    /\ jankReports = <<>>
    /\ acquireFenceCalls = <<>>

\* The state after construction, with the SurfaceFrame scenario at rest.
Init == TokenInit /\ TimelineInit /\ JankIdle /\ HistoryInit /\ PolicyInit /\ VibratorInit
        /\ LockInit /\ SamplingInit /\ ShimInit

\* The state after construction, with the SurfaceFrame scenario's inputs drawn.
InitJankScenario ==
    TokenInit /\ TimelineInit /\ JankInit /\ HistoryInit /\ PolicyInit /\ VibratorInit
        /\ LockInit
        /\ SamplingInit
        /\ ShimInit

SpecToken == Init /\ [][TokenNext]_vars

SpecTimeline == Init /\ [][TimelineNext]_vars

SpecJank == InitJankScenario /\ [][JankNext]_vars

SpecHistory == Init /\ [][HistoryNext]_vars

SpecPolicy == Init /\ [][PolicyNext]_vars

SpecSelect == Init /\ [][SelectNext]_vars

SpecVibrator == Init /\ [][VibratorNext]_vars

SpecDump == Init /\ [][DumpNext]_vars
SpecLock == Init /\ [][LockNext]_vars

SpecSampling == Init /\ [][SamplingNext]_vars

SpecShim == Init /\ [][ShimNext]_vars

\* --- Claims about the pending queue and the history --------------------------

\* Position of frame id in a sequence of frame ids (0 when absent).
IndexIn(frames, id) ==
    IF \E i \in 1..Len(frames) : frames[i] = id
    THEN CHOOSE i \in 1..Len(frames) : frames[i] = id
    ELSE 0

\* The queue as setSfPresent sees it after emplace_back, during a step that
\* is a setSfPresent call (the current frame changes only there).
IsSetSfPresentStep == presentsSinceResize' = presentsSinceResize + 1
QueueAtFlush ==
    Append(mPendingPresentFences, [valid |-> timelineOp'.valid, frame |-> mCurrentDisplayFrame])
SignalAtFlush(id) ==
    IF id = mCurrentDisplayFrame THEN timelineOp'.signalTime ELSE fenceSignalTime[id]
StillPendingAtFlush(e) == e.valid /\ SignalAtFlush(e.frame) = SIGNAL_TIME_PENDING

\* C4 (as stated): onPresent never has run for a display frame B while a
\* display frame A submitted before B is still in the pending queue.
C4_NoClassificationPastPending ==
    \A a \in PendingFrames(mPendingPresentFences), b \in DOMAIN displayFrame :
        a < b => displayFrame[b].onPresentCalls = 0

\* C4 (amended): a flush visits the queue in submission order and runs
\* onPresent for every entry whose own fence reports a signal time, also
\* for an entry behind one that is still pending; the frames it classifies
\* are classified in submission order.
QueueFramesAtFlush == [i \in 1..Len(QueueAtFlush) |-> QueueAtFlush[i].frame]
ResolvedAtFlush(id) ==
    /\ QueueAtFlush[IndexIn(QueueFramesAtFlush, id)].valid
    /\ SignalAtFlush(id) \notin {SIGNAL_TIME_PENDING, SIGNAL_TIME_INVALID}
C4_FlushClassifiesEveryResolved ==
    [][IsSetSfPresentStep =>
          /\ lastFlush' = SelectSeq(QueueFramesAtFlush, ResolvedAtFlush)
          /\ \A i, j \in 1..Len(lastFlush') : i < j => lastFlush'[i] < lastFlush'[j]
      ]_vars

\* Witness for C4: the latest flush classified a frame while a frame
\* submitted before it stayed in the pending queue.
C4_Witness ==
    /\ timelineOp.op = "setSfPresent"
    /\ \E a \in PendingFrames(mPendingPresentFences), i \in 1..Len(lastFlush) :
           a < lastFlush[i]

\* C5 (as stated): every display frame in the history has had its present
\* fence resolved and its classifier run.
C5_HistoryOnlyClassified ==
    \A i \in 1..Len(mDisplayFrames) :
        displayFrame[mDisplayFrames[i]].onPresentCalls >= 1

\* C5 (amended): a display frame is handed to the history by the
\* setSfPresent call that submits it, whether or not its present fence has
\* resolved: every frame in the history has its actual end time set, and
\* right after a setSfPresent that returns, the frame it submitted is the
\* newest history entry, also while that frame is still pending.
C5_HistoryHoldsSubmitted ==
    /\ \A i \in 1..Len(mDisplayFrames) :
           displayFrame[mDisplayFrames[i]].endTime \in SfPresentTimes
    /\ (timelineOp.op = "setSfPresent" /\ ~undefinedBehaviour) =>
           /\ mDisplayFrames # <<>>
           /\ mDisplayFrames[Len(mDisplayFrames)] = mCurrentDisplayFrame - 1

\* Witness for C5: right after setSfPresent the newest history entry is a
\* frame whose fence is still pending and whose classifier has not run.
C5_Witness ==
    /\ timelineOp.op = "setSfPresent"
    /\ mDisplayFrames # <<>>
    /\ LET id == mDisplayFrames[Len(mDisplayFrames)]
       IN  /\ id \in PendingFrames(mPendingPresentFences)
           /\ displayFrame[id].onPresentCalls = 0
           /\ displayFrame[id].presentTime = 0

\* C6: a flush drops no unresolved entry, and keeps the order of those that
\* remain: every entry whose fence reports SIGNAL_TIME_PENDING during the
\* flush is in the queue afterwards, and the queue stays in submission order.
C6_FlushKeepsPending ==
    [][IsSetSfPresentStep =>
          /\ \A i \in 1..Len(QueueAtFlush) :
                 StillPendingAtFlush(QueueAtFlush[i]) =>
                     QueueAtFlush[i] \in
                         {mPendingPresentFences'[j] : j \in 1..Len(mPendingPresentFences')}
          /\ \A i, j \in 1..Len(mPendingPresentFences') :
                 i < j => mPendingPresentFences'[i].frame < mPendingPresentFences'[j].frame
      ]_vars

\* Witness for C6: a flush that classified a frame and left two entries,
\* still pending, in the queue.
C6_Witness ==
    /\ timelineOp.op = "setSfPresent"
    /\ lastFlush # <<>>
    /\ Len(mPendingPresentFences) >= 2
    /\ \A i \in 1..Len(mPendingPresentFences) :
           fenceSignalTime[mPendingPresentFences[i].frame] = SIGNAL_TIME_PENDING

\* C7: with depth n >= 1, after k setSfPresent calls since construction or
\* the last resize, the history is exactly the min(k, n) most recently
\* submitted frames, oldest first.
C7_HistoryIsLastFrames ==
    (~undefinedBehaviour /\ mMaxDisplayFrames >= 1) =>
        LET m == Min(presentsSinceResize, mMaxDisplayFrames)
        IN  mDisplayFrames = [i \in 1..m |-> mCurrentDisplayFrame - m + i - 1]

\* Witness for C7: depth 3 and five frames submitted leave frames 3, 4, 5.
C7_Witness ==
    /\ mMaxDisplayFrames = 3
    /\ presentsSinceResize = 5
    /\ mDisplayFrames = <<3, 4, 5>>

\* C8: right after setMaxDisplayFrames(n) the history is empty, for n
\* larger than, smaller than or equal to the previous depth.
C8_ResizeClearsHistory ==
    timelineOp.op = "setMaxDisplayFrames" =>
        /\ mDisplayFrames = <<>>
        /\ mMaxDisplayFrames = timelineOp.size

\* Witness for C8: a shrink to a depth that is positive and smaller than
\* the number of frames the history held.
C8_Witness ==
    /\ timelineOp.op = "setMaxDisplayFrames"
    /\ timelineOp.size >= 1
    /\ timelineOp.size < timelineOp.oldSize
    /\ timelineOp.size < timelineOp.oldHistory
    /\ mDisplayFrames = <<>>

\* --- Claims about the SurfaceFrame and the classifiers ---------------------

\* C3: a second setPresentState call on a SurfaceFrame aborts and leaves
\* the present state and the last-latch time stored by the first call,
\* whatever values the two calls pass.
C3_SecondSetPresentStateAborts ==
    setPresentStateCalls >= 2 =>
        /\ aborted
        /\ surfaceFrame.mPresentState = firstSetPresentState[1].mPresentState
        /\ surfaceFrame.mLastLatchTime = firstSetPresentState[1].mLastLatchTime

\* The SurfaceFrame has been classified: onPresent has stored a present
\* time, which it does only for a Presented frame.
SurfaceFramePresented == surfaceFrame.mActuals.presentTime # 0

SurfacePresentDelta ==
    surfaceFrame.mActuals.presentTime - surfaceFrame.mPredictions.presentTime

\* C9: a Valid SurfaceFrame presented within presentThreshold of its
\* predicted present time is OnTimePresent and its jank type is exactly
\* None (and None is what is reported to TimeStats), whatever its finish
\* metadata, its last-latch time and the display frame's jank type are.
C9_OnTimePresentIsNone ==
    (/\ SurfaceFramePresented
     /\ surfaceFrame.mPredictionState = "Valid"
     /\ Abs(SurfacePresentDelta) <= thresholds.presentThreshold)
        => /\ surfaceFrame.mFramePresentMetadata = "OnTimePresent"
           /\ surfaceFrame.mJankType = JankNone
           /\ Len(jankReports) = 1
           /\ jankReports[1].jankType = JankNone

\* Witness for C9: an on-time Valid frame that finished late, was latched
\* after its predicted end, and belongs to a janky display frame.
C9_Witness ==
    /\ SurfaceFramePresented
    /\ surfaceFrame.mPredictionState = "Valid"
    /\ Abs(SurfacePresentDelta) <= thresholds.presentThreshold
    /\ surfaceFrame.mFrameReadyMetadata = "LateFinish"
    /\ surfaceFrame.mLastLatchTime >= surfaceFrame.mPredictions.endTime
    /\ owningDisplayFrame.mJankType # JankNone
    /\ surfaceFrame.mJankType = JankNone

\* The display frame has been classified, presenting early (before its
\* predicted present time by more than presentThreshold) and finishing late
\* (after its predicted end by more than deadlineThreshold).
DisplayEarlyPresentLateFinish ==
    /\ owningDisplayFrame.onPresentCalls >= 1
    /\ owningDisplayFrame.mSurfaceFlingerActuals.presentTime
           - owningDisplayFrame.mSurfaceFlingerPredictions.presentTime
               < -thresholds.presentThreshold
    /\ owningDisplayFrame.mSurfaceFlingerActuals.endTime
           - owningDisplayFrame.mSurfaceFlingerPredictions.endTime
               > thresholds.deadlineThreshold

\* C10 (as stated): a display frame that is EarlyPresent with LateFinish is
\* classified Unknown, as a surface frame is.
C10_DisplayEarlyLateIsUnknown ==
    DisplayEarlyPresentLateFinish => owningDisplayFrame.mJankType = {"Unknown"}

\* C10 (amended): a display frame that is EarlyPresent with LateFinish is
\* classified SurfaceFlingerScheduling; here the display-level tree departs
\* from the surface-level one.
C10_DisplayEarlyLateIsScheduling ==
    DisplayEarlyPresentLateFinish =>
        /\ owningDisplayFrame.mFramePresentMetadata = "EarlyPresent"
        /\ owningDisplayFrame.mFrameReadyMetadata = "LateFinish"
        /\ owningDisplayFrame.mJankType = {"SurfaceFlingerScheduling"}

\* Witness for C10: a classified display frame that presented early and
\* finished late.
C10_Witness ==
    /\ DisplayEarlyPresentLateFinish
    /\ owningDisplayFrame.mJankType = {"SurfaceFlingerScheduling"}

\* --- Claims about expired, token-less and unpresented frames ---------------

\* C11 (as stated): a display frame that setSfWakeUp armed with a token whose
\* predictions are gone (Expired) is classified on present as Unknown with
\* UnknownPresent and UnknownFinish, never against the zero predictions.
C11_ExpiredDisplayIsUnknown ==
    (/\ owningDisplayFrame.onPresentCalls >= 1
     /\ owningDisplayFrame.mPredictionState = "Expired")
        => /\ owningDisplayFrame.mJankType = {"Unknown"}
           /\ owningDisplayFrame.mFramePresentMetadata = "UnknownPresent"
           /\ owningDisplayFrame.mFrameReadyMetadata = "UnknownFinish"

\* A step in which DisplayFrame::onPresent runs, and with it onPresent of
\* the SurfaceFrame.
IsOnPresentStep == owningDisplayFrame'.onPresentCalls = owningDisplayFrame.onPresentCalls + 1

\* C13: onPresent on a SurfaceFrame that is not Presented (Dropped, or still
\* Unknown) changes no member of the frame (the present time stays 0, the
\* jank type and the metadata stay as they were) and reports nothing to
\* TimeStats.
C13_NotPresentedUntouched ==
    [][(IsOnPresentStep /\ surfaceFrame.mPresentState # "Presented") =>
          /\ surfaceFrame' = surfaceFrame
          /\ surfaceFrame'.mActuals.presentTime = 0
          /\ jankReports' = jankReports
      ]_vars

\* Witness for C13: the display frame has been presented with a Valid
\* SurfaceFrame that was Dropped; the frame carries no present time and
\* nothing was reported.
C13_Witness ==
    /\ owningDisplayFrame.onPresentCalls = 1
    /\ owningDisplayFrame.mJankType # JankNone
    /\ surfaceFrame.mPresentState = "Dropped"
    /\ surfaceFrame.mPredictionState = "Valid"
    /\ surfaceFrame.mActuals.presentTime = 0
    /\ surfaceFrame.mJankType = JankNone
    /\ jankReports = <<>>

\* C14: a Presented SurfaceFrame whose predictions are Expired is classified
\* exactly Unknown with UnknownPresent and UnknownFinish, whatever its
\* timestamps and the display frame's jank type are, and it is reported to
\* TimeStats once, as Unknown with the app deadline delta -1.
C14_ExpiredSurfaceIsUnknown ==
    (SurfaceFramePresented /\ surfaceFrame.mPredictionState = "Expired")
        => /\ surfaceFrame.mJankType = {"Unknown"}
           /\ surfaceFrame.mFramePresentMetadata = "UnknownPresent"
           /\ surfaceFrame.mFrameReadyMetadata = "UnknownFinish"
           /\ Len(jankReports) = 1
           /\ jankReports[1].jankType = {"Unknown"}
           /\ jankReports[1].appDeadlineDelta = -1

\* Witness for C14: a presented Expired frame with an acquire fence time and
\* a latch time, in a display frame that is janky for a known cause.
C14_Witness ==
    /\ SurfaceFramePresented
    /\ surfaceFrame.mPredictionState = "Expired"
    /\ surfaceFrame.mActuals.endTime # 0
    /\ surfaceFrame.mLastLatchTime # 0
    /\ owningDisplayFrame.mJankType \notin {JankNone, {"Unknown"}}
    /\ surfaceFrame.mJankType = {"Unknown"}

\* C15: a Presented SurfaceFrame created without a token (PredictionState
\* None) is not classified: after onPresent its jank type and its present
\* and finish metadata have their initial values, and nothing has been
\* reported to TimeStats.
C15_NoTokenNotClassified ==
    (SurfaceFramePresented /\ surfaceFrame.mPredictionState = "None")
        => /\ surfaceFrame.mJankType = JankNone
           /\ surfaceFrame.mFramePresentMetadata = "UnknownPresent"
           /\ surfaceFrame.mFrameReadyMetadata = "UnknownFinish"
           /\ jankReports = <<>>

\* Witness for C15: a presented token-less frame in a janky display frame.
C15_Witness ==
    /\ SurfaceFramePresented
    /\ surfaceFrame.mPredictionState = "None"
    /\ surfaceFrame.mPresentState = "Presented"
    /\ owningDisplayFrame.mJankType # JankNone
    /\ surfaceFrame.mJankType = JankNone
    /\ jankReports = <<>>

\* C16 (as stated): whenever TimeStats::incrementJankyFrames is called, the
\* calling thread holds neither the SurfaceFrame's nor the FrameTimeline's
\* mutex.
C16_NoLockHeldAtReport ==
    \A i \in 1..Len(jankReports) :
        jankReports[i].locksHeld \cap {SurfaceFrameMutex, FrameTimelineMutex} = {}

\* C16 (amended): every incrementJankyFrames call that a present makes is
\* made while the calling thread holds both the FrameTimeline's mutex
\* (taken by setSfPresent) and the SurfaceFrame's mutex (taken by onPresent).
C16_BothLocksHeldAtReport ==
    \A i \in 1..Len(jankReports) :
        jankReports[i].locksHeld = {SurfaceFrameMutex, FrameTimelineMutex}

\* Witness for C16: a classified Valid frame has been reported.
C16_Witness ==
    /\ Len(jankReports) = 1
    /\ surfaceFrame.mPredictionState = "Valid"
    /\ SurfaceFramePresented

\* --- Claims about the present cascade and the dumps -----------------------

\* The display frames whose DisplayFrame::onPresent runs in this step.
ClassifiedInStep ==
    {id \in DOMAIN timelineFrames \cap DOMAIN timelineFrames' :
        /\ timelineFrames[id].onPresentCalls = 0
        /\ timelineFrames'[id].onPresentCalls = 1}

\* The onPresent calls the SurfaceFrames of display frame id are to get,
\* given the frame before (its SurfaceFrames) and after (its verdict) the step.
ExpectedOnPresentCalls(id) ==
    [i \in 1..Len(timelineFrames[id].mSurfaceFrames) |->
        [frame |-> id,
         layer |-> timelineFrames[id].mSurfaceFrames[i].mLayerName,
         presentTime |-> timelineFrames'[id].mSurfaceFlingerActuals.presentTime,
         displayFrameJankType |-> timelineFrames'[id].mJankType,
         refreshRatePeriod |-> timelineFrames'[id].mRefreshRatePeriod]]

\* C12: when the fence of a display frame resolves, every SurfaceFrame
\* added to it gets onPresent exactly once, in the order of the
\* addSurfaceFrame calls, with the fence's signal time, the jank type the
\* display frame ends the step with and the display frame's refresh rate;
\* no other SurfaceFrame gets a call.
C12_SurfaceFramesPresentedInOrder ==
    [][currentId' = currentId + 1 =>
          /\ \A id \in ClassifiedInStep :
                 /\ SelectSeq(onPresentLog', LAMBDA e : e.frame = id) = ExpectedOnPresentCalls(id)
                 /\ \A i \in 1..Len(timelineFrames[id].mSurfaceFrames) :
                        timelineFrames[id].mSurfaceFrames[i].mLayerName = i
          /\ \A k \in 1..Len(onPresentLog') : onPresentLog'[k].frame \in ClassifiedInStep
      ]_vars

\* Witness for C12: the latest setSfPresent classified a display frame as
\* janky and then called its two SurfaceFrames, the older first, with that
\* jank type; the Presented one of them took the causes over.
C12_Witness ==
    /\ Len(onPresentLog) = 2
    /\ onPresentLog[1].frame = onPresentLog[2].frame
    /\ onPresentLog[1].layer = 1
    /\ onPresentLog[2].layer = 2
    /\ onPresentLog[1].displayFrameJankType # JankNone
    /\ onPresentLog[1].frame \in DOMAIN timelineFrames
    /\ LET df == timelineFrames[onPresentLog[1].frame]
       IN  /\ df.mJankType = onPresentLog[2].displayFrameJankType
           /\ df.mSurfaceFrames[1].mPresentState = "Dropped"
           /\ df.mSurfaceFrames[2].mPresentState = "Presented"
           /\ df.mSurfaceFrames[2].mActuals.presentTime = onPresentLog[2].presentTime
           /\ df.mJankType \subseteq df.mSurfaceFrames[2].mJankType

\* The timestamps that are set in a TimelineItem pair: the predictions when
\* they are Valid, and the actual times that are not 0.
SetTimestamps(predictionState, predictions, actuals) ==
    (IF predictionState = "Valid"
     THEN {predictions.startTime, predictions.endTime, predictions.presentTime}
     ELSE {})
    \cup ({actuals.startTime, actuals.endTime, actuals.presentTime} \ {0})

\* The set timestamps of the display frames of the history and of all
\* their SurfaceFrames.
HistoryTimestamps ==
    UNION {LET df == timelineFrames[historyIds[k]]
           IN  SetTimestamps(df.mPredictionState, df.mSurfaceFlingerPredictions,
                             df.mSurfaceFlingerActuals)
               \cup UNION {SetTimestamps(df.mSurfaceFrames[i].mPredictionState,
                                         df.mSurfaceFrames[i].mPredictions,
                                         df.mSurfaceFrames[i].mActuals) :
                           i \in 1..Len(df.mSurfaceFrames)} :
           k \in 1..Len(historyIds)}

\* C18 (as stated): the base time of dumpAll and dumpJank is the minimum
\* set timestamp over all display frames of the history and all their
\* SurfaceFrames. The dumps meant are those during which no layer
\* changed a SurfaceFrame.
C18_BaseTimeIsHistoryMinimum ==
    (dumpOp # "none" /\ ~dumpCall.raced /\ historyIds # <<>>) =>
        /\ dumpBaseTime \in HistoryTimestamps
        /\ \A t \in HistoryTimestamps : dumpBaseTime <= t

\* The positions (counted from 0) of the display frames a dump printed.
DumpedDisplayFrames ==
    {dumpResult[k][3] : k \in {j \in 1..Len(dumpResult) : dumpResult[j][2] = "Display Frame"}}

\* C19 (as stated): dumpJank prints a display frame if and only if the
\* frame's jank type is not None or the jank type of one of its
\* SurfaceFrames is not None; a frame whose SurfaceFrames are all
\* non-janky, dropped or not yet presented is left out. The dumps meant
\* are those during which no layer changed a SurfaceFrame.
C19_JankDumpPrintsIffJanky ==
    (dumpOp = "dumpJank" /\ ~dumpCall.raced) =>
        DumpedDisplayFrames =
            {k - 1 : k \in {j \in 1..Len(historyIds) :
                LET df == timelineFrames[historyIds[j]]
                IN  \/ df.mJankType # JankNone
                    \/ \E i \in 1..Len(df.mSurfaceFrames) :
                           df.mSurfaceFrames[i].mJankType # JankNone}}

\* --- Claims about the refresh rate policy ----------------------------------

\* C20: after any sequence of setDisplayManagerPolicy and setOverridePolicy
\* calls, getCurrentPolicy returns the last override policy accepted if an
\* override is set, and otherwise (none set yet, or cleared by
\* setOverridePolicy(nullopt)) the last display manager policy accepted,
\* also when that one was accepted while an override was active.
C20_CurrentPolicyIsOverrideElseDisplayManager ==
    getCurrentPolicy =
        IF acceptedOverridePolicy # nullopt
        THEN acceptedOverridePolicy[1]
        ELSE acceptedDisplayManagerPolicy

\* Witness for C20: setOverridePolicy(nullopt) has just cleared an override
\* during which a new display manager policy had been accepted; that
\* policy is now the current one.
C20_Witness ==
    /\ policyOp.op = "setOverridePolicy"
    /\ policyOp.policy = nullopt
    /\ policyOp.status = NO_ERROR
    /\ acceptedWhileOverridden
    /\ acceptedDisplayManagerPolicy # InitialPolicy
    /\ getCurrentPolicy = acceptedDisplayManagerPolicy

\* The two ways a policy can be invalid: the primary range reaches outside
\* the app request range, or the default config is no mode of the device.
PrimaryOutsideAppRequest(policy) ==
    \/ policy.primaryRange.min < policy.appRequestRange.min
    \/ policy.primaryRange.max > policy.appRequestRange.max
DefaultConfigNotLive(policy) == \A configId \in DOMAIN RefreshRates : configId # policy.defaultConfig

\* The policy a set*Policy step was called with, if it was called with one.
CalledWithPolicy == policyOp'.op \in {"setDisplayManagerPolicy", "setOverridePolicy"}
                        /\ policyOp'.policy # nullopt

\* C21: setDisplayManagerPolicy and setOverridePolicy reject, with a negative
\* status, a policy whose primary range is not within its app request range
\* or whose default config is no mode of the device, and the rejected call
\* leaves the display manager policy, the override policy and the current
\* policy as they were.
C21_InvalidPolicyRejectedUnchanged ==
    [][(CalledWithPolicy /\ (PrimaryOutsideAppRequest(policyOp'.policy[1])
                                \/ DefaultConfigNotLive(policyOp'.policy[1])))
          => /\ policyOp'.status = BAD_VALUE
             /\ UNCHANGED <<mDisplayManagerPolicy, mOverridePolicy>>
             /\ getCurrentPolicy' = getCurrentPolicy]_vars

\* Witness for C21: an override is active over a display manager policy
\* that is not the initial one, and a setOverridePolicy call with nested
\* ranges but a default config that is no mode of the device was rejected.
C21_Witness ==
    /\ policyOp.op = "setOverridePolicy"
    /\ policyOp.policy # nullopt
    /\ policyOp.status = BAD_VALUE
    /\ DefaultConfigNotLive(policyOp.policy[1])
    /\ ~PrimaryOutsideAppRequest(policyOp.policy[1])
    /\ mOverridePolicy # nullopt
    /\ mDisplayManagerPolicy # InitialPolicy

\* C22: for a valid policy (or a cleared override), set*Policy returns
\* CURRENT_POLICY_UNCHANGED exactly when the current policy is the same
\* after the call as before it and NO_ERROR exactly when it differs; a
\* display manager policy set while an override is active returns
\* CURRENT_POLICY_UNCHANGED.
C22_StatusTellsWhetherCurrentPolicyChanged ==
    [][(policyOp'.op \in {"setDisplayManagerPolicy", "setOverridePolicy"}
           /\ (policyOp'.policy # nullopt =>
                  ~PrimaryOutsideAppRequest(policyOp'.policy[1])
                      /\ ~DefaultConfigNotLive(policyOp'.policy[1])))
          => /\ (policyOp'.status = CURRENT_POLICY_UNCHANGED)
                    <=> (getCurrentPolicy' = getCurrentPolicy)
             /\ (policyOp'.status = NO_ERROR) <=> (getCurrentPolicy' # getCurrentPolicy)
             /\ (policyOp'.op = "setDisplayManagerPolicy" /\ mOverridePolicy # nullopt)
                    => policyOp'.status = CURRENT_POLICY_UNCHANGED]_vars

\* Witness for C22: a display manager policy that replaced a different one
\* while an override was active, reported as CURRENT_POLICY_UNCHANGED.
C22_Witness ==
    /\ policyOp.op = "setDisplayManagerPolicy"
    /\ policyOp.stored
    /\ policyOp.status = CURRENT_POLICY_UNCHANGED
    /\ mOverridePolicy # nullopt
    /\ mDisplayManagerPolicy # mOverridePolicy[1]

\* --- Claims about the selection of the refresh rate -----------------------

\* C23: the refresh rate getBestRefreshRate returns, for any layers and
\* global signals, lies within the app request range of the current policy.
C23_BestRateWithinAppRequestRange ==
    selectOp.op = "getBestRefreshRate"
        => inPolicy(RefreshRates[selectOp.result], getCurrentPolicy.appRequestRange.min,
                    getCurrentPolicy.appRequestRange.max)

\* Witness for C23: under an override whose app request range is wider than
\* its primary range and narrower than the device's modes, an explicit vote
\* took the choice above the primary range.
C23_Witness ==
    /\ selectOp.op = "getBestRefreshRate"
    /\ mOverridePolicy # nullopt
    /\ getCurrentPolicy.appRequestRange.max < RefreshRates[2]
    /\ RefreshRates[selectOp.result] > getCurrentPolicy.primaryRange.max

\* The scenario of C24: modes of 60, 90 and 120 fps, a current policy with
\* the primary range [60, 90], and a call with a single focused layer that
\* votes ExplicitExact at 30 fps with weight 1.0 and no global signal.
ExplicitExact30Scenario ==
    /\ selectOp.op = "getBestRefreshRate"
    /\ {RefreshRates[configId] : configId \in DOMAIN RefreshRates} = {60, 90, 120}
    /\ getCurrentPolicy.primaryRange = FpsRange(60, 90)
    /\ selectOp.layers = <<LayerRequirement("ExplicitExact", 30, 1, TRUE)>>
    /\ ~selectOp.globalSignals.touch /\ ~selectOp.globalSignals.idle

\* C24 as stated: in the scenario the selection returns 90 fps, not 60 fps.
C24_Scenario30Returns90 ==
    ExplicitExact30Scenario => RefreshRates[selectOp.result] = 90

\* C24, amended: in the scenario the selection returns 60 fps, the lowest
\* of the rates that 30 fps divides evenly, not 90 fps.
C24_Scenario30Returns60 ==
    ExplicitExact30Scenario => RefreshRates[selectOp.result] = 60

\* Witness for C24: the scenario under a policy whose app request range
\* also admits 120 fps, answered with 60 fps.
C24_Witness ==
    /\ ExplicitExact30Scenario
    /\ getCurrentPolicy.appRequestRange = FpsRange(60, 120)
    /\ RefreshRates[selectOp.result] = 60

\* --- Claims about the vibrator HAL wrapper --------------------------------

\* A thread leaves the body of the cached query in this step.
LoadStep(query) ==
    \E t \in VibratorThreads :
        /\ vibratorPc[t].pc = "load" /\ vibratorPc[t].query = query
        /\ vibratorPc'[t].pc # "load"

\* The number of queries the HAL answered with ok.
RECURSIVE OkCount(_)
OkCount(statuses) ==
    IF statuses = <<>> THEN 0
    ELSE (IF Head(statuses) = "OK" THEN 1 ELSE 0) + OkCount(Tail(statuses))

\* C25: the wrapper caches exactly the successful results of
\* getCapabilities, getSupportedEffects and getSupportedPrimitives.  A call
\* reaches the HAL if and only if no earlier call of the same query
\* succeeded, so unsupported and failed results are queried again; however
\* the callers interleave, the HAL answers a query with ok at most once
\* and every caller that gets a value gets the same one.
C25_CachesExactlySuccessfulResults ==
    [][\A query \in CacheQueries :
          /\ LoadStep(query) =>
                 ((Len(halQueries'[query]) = Len(halQueries[query]) + 1)
                      <=> (OkCount(halQueries[query]) = 0))
          /\ ~LoadStep(query) => halQueries'[query] = halQueries[query]
          /\ OkCount(halQueries'[query]) <= 1
          /\ Cardinality(queryReturns'[query]) <= 1
          /\ (OkCount(halQueries'[query]) = 1) <=> (mCached'[query] # nullopt)]_vars

\* Witness for C25: two threads called getSupportedEffects for the first
\* time concurrently (one waited for the mutex the other held); both have
\* returned a value and the HAL was queried once.
C25_Witness ==
    /\ "getSupportedEffects" \in contended
    /\ halQueries["getSupportedEffects"] = <<"OK">>
    /\ queryReturns["getSupportedEffects"] # {}
    /\ vibratorCalls = 2
    /\ \A t \in VibratorThreads : vibratorPc[t].pc = "idle"

\* The completion callbacks of a call that are made or still to come.
CallbacksDue(vibration) ==
    vibration.callbackCounter + (IF vibration.pendingHal THEN 1 ELSE 0)
        + (IF vibration.pendingScheduler THEN 1 ELSE 0)

\* C26: for on, performEffect and performComposedEffect the completion
\* callback is invoked exactly once per call whose HAL result is ok -- by
\* the HAL when it supports the callback, otherwise by the callback
\* scheduler -- and never for a call whose result is unsupported or failed.
C26_CallbackOncePerOkCall ==
    \A i \in 1..Len(vibrations) :
        LET vibration == vibrations[i]
        IN  /\ vibration.callbackCounter <= 1
            /\ isOk(vibration.result) =>
                   /\ CallbacksDue(vibration) = 1
                   /\ vibration.pendingHal \/ vibration.invokedBy = {"HAL"}
                          <=> vibration.supportsCallback
                   /\ vibration.pendingScheduler \/ vibration.invokedBy = {"CallbackScheduler"}
                          <=> ~vibration.supportsCallback
            /\ ~isOk(vibration.result) => CallbacksDue(vibration) = 0

\* Witness for C26: an on() that the HAL accepted without callback support
\* had its callback run once by the scheduler, and a call the HAL refused
\* as unsupported had none.
C26_Witness ==
    /\ Len(vibrations) = 2
    /\ \E i, j \in 1..2 :
           /\ vibrations[i].op = "on"
           /\ isOk(vibrations[i].result)
           /\ ~vibrations[i].supportsCallback
           /\ vibrations[i].callbackCounter = 1
           /\ vibrations[i].invokedBy = {"CallbackScheduler"}
           /\ vibrations[j].result = HalResultUnsupported
           /\ vibrations[j].callbackCounter = 0
           /\ ~vibrations[j].pendingHal /\ ~vibrations[j].pendingScheduler

\* A Valid SurfaceFrame has been classified by onPresent.
ValidSurfaceFramePresented ==
    /\ SurfaceFramePresented
    /\ surfaceFrame.mPredictionState = "Valid"

SurfaceDeadlineDelta ==
    surfaceFrame.mActuals.endTime - surfaceFrame.mPredictions.endTime

SurfaceLatePresent == SurfacePresentDelta > thresholds.presentThreshold

SurfaceEarlyPresent == SurfacePresentDelta < -thresholds.presentThreshold

\* The finish metadata onPresent has recorded (the acquire fence time can
\* still be set after the frame was presented).
SurfaceLateFinish == surfaceFrame.mFrameReadyMetadata = "LateFinish"

SurfaceOnTimeFinish == surfaceFrame.mFrameReadyMetadata = "OnTimeFinish"

SurfaceDeltaToVsync == Abs(SurfacePresentDelta) % owningDisplayFrame.mRefreshRatePeriod

\* deltaToVsync lies in the band around a multiple of the refresh period:
\* less than presentThreshold above it, or at most presentThreshold below it.
SurfaceDeltaInVsyncBand ==
    \/ SurfaceDeltaToVsync < thresholds.presentThreshold
    \/ owningDisplayFrame.mRefreshRatePeriod - SurfaceDeltaToVsync <= thresholds.presentThreshold

\* The causes of the frame's jank type other than BufferStuffing.
SurfaceFinishCauses == surfaceFrame.mJankType \ {"BufferStuffing"}

\* C27: a Valid, Presented SurfaceFrame that is LatePresent with LateFinish
\* gets AppDeadlineMissed if and only if the owning display frame's jank
\* type is None, and then nothing else from the finish branch; otherwise it
\* gets exactly the display frame's jank causes and never AppDeadlineMissed.
C27_LateLateBlamesAppIffDisplayClean ==
    (/\ ValidSurfaceFramePresented
     /\ SurfaceLatePresent
     /\ SurfaceLateFinish)
        => /\ surfaceFrame.mFramePresentMetadata = "LatePresent"
           /\ ("AppDeadlineMissed" \in surfaceFrame.mJankType)
                  <=> (owningDisplayFrame.mJankType = JankNone)
           /\ owningDisplayFrame.mJankType = JankNone
                  => SurfaceFinishCauses = {"AppDeadlineMissed"}
           /\ owningDisplayFrame.mJankType # JankNone
                  => SurfaceFinishCauses = owningDisplayFrame.mJankType
           /\ jankReports[Len(jankReports)].jankType = surfaceFrame.mJankType

\* Witness for C27: a late frame that finished late under a display frame
\* that is not janky, blamed on the app.
C27_Witness ==
    /\ ValidSurfaceFramePresented
    /\ SurfaceLatePresent
    /\ SurfaceLateFinish
    /\ SurfaceDeadlineDelta > thresholds.deadlineThreshold
    /\ owningDisplayFrame.mJankType = JankNone
    /\ "AppDeadlineMissed" \in surfaceFrame.mJankType

\* C28: a Valid, Presented SurfaceFrame that is LatePresent with
\* OnTimeFinish gets the display frame's jank causes if the display frame is
\* janky; otherwise it gets SurfaceFlingerScheduling when deltaToVsync =
\* |presentDelta| mod period is in the band around a multiple of the period
\* (below presentThreshold, or at least period - presentThreshold) and
\* PredictionError otherwise. 10 ms late at a 16.6 ms period with a 2 ms
\* threshold is PredictionError.
C28_LateOnTimeFinishCause ==
    /\ (/\ ValidSurfaceFramePresented
        /\ SurfaceLatePresent
        /\ SurfaceOnTimeFinish)
           => /\ surfaceFrame.mFramePresentMetadata = "LatePresent"
              /\ SurfaceFinishCauses =
                     IF owningDisplayFrame.mJankType # JankNone
                     THEN owningDisplayFrame.mJankType
                     ELSE IF SurfaceDeltaInVsyncBand
                     THEN {"SurfaceFlingerScheduling"}
                     ELSE {"PredictionError"}
    /\ FramePresentMetadataOf(100, 20) = "LatePresent"
    /\ SurfaceJankType(JankNone, "LatePresent", "OnTimeFinish", 100 % 166, 166, 20,
                       0, 0, JankNone) = {"PredictionError"}

\* Witness for C28: a late frame that finished on time under a display frame
\* that is not janky, with deltaToVsync exactly period - presentThreshold.
C28_Witness ==
    /\ ValidSurfaceFramePresented
    /\ SurfaceLatePresent
    /\ SurfaceOnTimeFinish
    /\ SurfaceDeadlineDelta <= thresholds.deadlineThreshold
    /\ owningDisplayFrame.mJankType = JankNone
    /\ SurfaceDeltaToVsync = owningDisplayFrame.mRefreshRatePeriod - thresholds.presentThreshold
    /\ SurfaceFinishCauses = {"SurfaceFlingerScheduling"}

\* The frame presented late after a latch that is known and not before its
\* predicted end.
SurfaceStuffed ==
    /\ SurfaceLatePresent
    /\ surfaceFrame.mLastLatchTime # 0
    /\ surfaceFrame.mPredictions.endTime <= surfaceFrame.mLastLatchTime

\* C29: the jank type of a Valid, Presented SurfaceFrame includes
\* BufferStuffing if and only if the frame is LatePresent, its last latch
\* time is not zero and its predicted end is at or before the last latch
\* time; the cause chosen from the finish metadata is there as well.
C29_BufferStuffingIffLateAndLatchedAfterEnd ==
    ValidSurfaceFramePresented
        => /\ ("BufferStuffing" \in surfaceFrame.mJankType) <=> SurfaceStuffed
           /\ SurfaceStuffed
                  => /\ SurfaceFinishCauses # {}
                     /\ SurfaceLateFinish /\ owningDisplayFrame.mJankType = JankNone
                            => "AppDeadlineMissed" \in surfaceFrame.mJankType
                     /\ owningDisplayFrame.mJankType # JankNone
                            => owningDisplayFrame.mJankType \subseteq surfaceFrame.mJankType

\* Witness for C29: a late frame latched exactly at its predicted end, with
\* BufferStuffing and the app's missed deadline both in its jank type.
C29_Witness ==
    /\ ValidSurfaceFramePresented
    /\ SurfaceLatePresent
    /\ surfaceFrame.mLastLatchTime = surfaceFrame.mPredictions.endTime
    /\ surfaceFrame.mJankType = {"BufferStuffing", "AppDeadlineMissed"}

\* C30: a Valid, Presented SurfaceFrame that is EarlyPresent has, with
\* OnTimeFinish, exactly SurfaceFlingerScheduling when deltaToVsync is in
\* the band around a multiple of the period and exactly PredictionError
\* otherwise, and with LateFinish exactly Unknown, whatever the display
\* frame's jank type and the last latch time are.
C30_EarlyPresentCause ==
    (/\ ValidSurfaceFramePresented
     /\ SurfaceEarlyPresent)
        => /\ surfaceFrame.mFramePresentMetadata = "EarlyPresent"
           /\ surfaceFrame.mJankType =
                  IF SurfaceLateFinish THEN {"Unknown"}
                  ELSE IF SurfaceDeltaInVsyncBand
                  THEN {"SurfaceFlingerScheduling"}
                  ELSE {"PredictionError"}
           /\ jankReports[Len(jankReports)].jankType = surfaceFrame.mJankType

\* Witness for C30: an early frame that finished on time with deltaToVsync
\* exactly presentThreshold, under a janky display frame whose cause it
\* does not take, latched after its predicted end.
C30_Witness ==
    /\ ValidSurfaceFramePresented
    /\ SurfaceEarlyPresent
    /\ SurfaceOnTimeFinish
    /\ SurfaceDeadlineDelta <= thresholds.deadlineThreshold
    /\ SurfaceDeltaToVsync = thresholds.presentThreshold
    /\ owningDisplayFrame.mJankType = {"SurfaceFlingerScheduling"}
    /\ surfaceFrame.mLastLatchTime >= surfaceFrame.mPredictions.endTime
    /\ surfaceFrame.mJankType = {"PredictionError"}

\* --- Claims about the display frame's late present ------------------------

\* The display frame has been classified.
DisplayFramePresented == owningDisplayFrame.onPresentCalls >= 1

DisplayPresentDelta ==
    owningDisplayFrame.mSurfaceFlingerActuals.presentTime
        - owningDisplayFrame.mSurfaceFlingerPredictions.presentTime

DisplayDeadlineDelta ==
    owningDisplayFrame.mSurfaceFlingerActuals.endTime
        - owningDisplayFrame.mSurfaceFlingerPredictions.endTime

DisplayDeltaToVsync == Abs(DisplayPresentDelta) % owningDisplayFrame.mRefreshRatePeriod

\* deltaToVsync of the display frame lies in the band around a multiple of
\* the refresh period.
DisplayDeltaInVsyncBand ==
    \/ DisplayDeltaToVsync < thresholds.presentThreshold
    \/ owningDisplayFrame.mRefreshRatePeriod - DisplayDeltaToVsync <= thresholds.presentThreshold

DisplayLatePresent ==
    /\ DisplayFramePresented
    /\ DisplayPresentDelta > thresholds.presentThreshold

\* C31: a display frame that is LatePresent is classified
\* SurfaceFlingerCpuDeadlineMissed when it finished late; when it finished
\* on time it is DisplayHAL if deltaToVsync is in the band around a multiple
\* of the refresh period and PredictionError otherwise.
C31_DisplayLatePresentCause ==
    DisplayLatePresent
        => /\ owningDisplayFrame.mFramePresentMetadata = "LatePresent"
           /\ owningDisplayFrame.mJankType =
                  IF DisplayDeadlineDelta > thresholds.deadlineThreshold
                  THEN {"SurfaceFlingerCpuDeadlineMissed"}
                  ELSE IF DisplayDeltaInVsyncBand
                  THEN {"DisplayHAL"}
                  ELSE {"PredictionError"}

\* Witness for C31: a late display frame that finished late although its
\* deltaToVsync is in the band, blamed on the compositor's deadline.
C31_Witness ==
    /\ DisplayLatePresent
    /\ owningDisplayFrame.mPredictionState = "Valid"
    /\ DisplayDeadlineDelta > thresholds.deadlineThreshold
    /\ DisplayDeltaInVsyncBand
    /\ owningDisplayFrame.mJankType = {"SurfaceFlingerCpuDeadlineMissed"}

\* --- Claims about the SurfaceFrame's end time and base time ---------------

\* Both the queue time and the acquire fence time have been recorded.
QueueAndAcquireRecorded ==
    /\ surfaceFrame.mActualQueueTime # 0
    /\ Len(acquireFenceCalls) = 1

\* The queue time had been recorded when setAcquireFenceTime was called.
QueuedBeforeAcquire ==
    /\ QueueAndAcquireRecorded
    /\ acquireFenceCalls[1].mActualQueueTime = surfaceFrame.mActualQueueTime

\* C32 (as stated): once both the queue time and the acquire fence time of
\* a SurfaceFrame are recorded, its actual end time is the larger of the
\* two, in whichever order the setters were called.
C32_EndTimeIsMaxEitherOrder ==
    QueueAndAcquireRecorded
        => surfaceFrame.mActuals.endTime =
               Max(acquireFenceCalls[1].acquireFenceTime, surfaceFrame.mActualQueueTime)

\* C32 (amended): when the queue time is recorded before the acquire fence
\* time, the actual end time is the larger of the two; when the acquire
\* fence time is recorded first, the end time is the acquire fence time,
\* whatever queue time is recorded later.
C32_EndTimeIsMaxWhenQueuedFirst ==
    QueueAndAcquireRecorded
        => surfaceFrame.mActuals.endTime =
               IF QueuedBeforeAcquire
               THEN Max(acquireFenceCalls[1].acquireFenceTime, surfaceFrame.mActualQueueTime)
               ELSE acquireFenceCalls[1].acquireFenceTime

\* Witness for C32: the frame was queued after its acquire fence had
\* signalled, the queue time was recorded first, and the end time is the
\* queue time.
C32_Witness ==
    /\ QueuedBeforeAcquire
    /\ surfaceFrame.mActualQueueTime > acquireFenceCalls[1].acquireFenceTime
    /\ surfaceFrame.mActuals.endTime = surfaceFrame.mActualQueueTime

\* The timestamps of the SurfaceFrame that are set: the predicted start of
\* Valid predictions and the actual times that are not zero.
SurfaceSetTimestamps ==
    (IF surfaceFrame.mPredictionState = "Valid"
     THEN {surfaceFrame.mPredictions.startTime} ELSE {})
        \cup ({surfaceFrame.mActuals.startTime, surfaceFrame.mActuals.endTime,
               surfaceFrame.mActuals.presentTime} \ {0})

\* C40: getMinTime returns the smallest of the timestamps that are set, and
\* never 0 or an unset field when at least one timestamp is set.
C40_MinTimeIsSmallestSetTimestamp ==
    SurfaceSetTimestamps # {}
        => /\ SurfaceFrameGetBaseTime(surfaceFrame) \in SurfaceSetTimestamps
           /\ \A t \in SurfaceSetTimestamps : SurfaceFrameGetBaseTime(surfaceFrame) <= t

\* --- Claims about the history depth and the entries a flush removes -------

\* C33: for every depth passed to setMaxDisplayFrames, 0 included, each
\* later setSfPresent returns and leaves at most that many display frames
\* in the history.
C33_SetSfPresentReturnsWithinDepth ==
    timelineOp.op = "setSfPresent"
        => /\ ~undefinedBehaviour
           /\ Len(mDisplayFrames) <= mMaxDisplayFrames

\* The entry of the queue a flush works on is gone from the queue after it.
RemovedByFlush(e) ==
    e \notin {mPendingPresentFences'[j] : j \in 1..Len(mPendingPresentFences')}

\* The flush has run DisplayFrame::onPresent on the entry's display frame.
ClassifiedByFlush(e) == \E j \in 1..Len(lastFlush') : lastFlush'[j] = e.frame

\* C34 (as stated): a flush removes no entry, one with a null or invalid
\* fence included, without having run DisplayFrame::onPresent on its
\* display frame.
C34_FlushRemovesOnlyClassified ==
    [][IsSetSfPresentStep =>
          \A i \in 1..Len(QueueAtFlush) :
              RemovedByFlush(QueueAtFlush[i]) => ClassifiedByFlush(QueueAtFlush[i])
      ]_vars

\* C34 (amended): a flush removes exactly the entries whose fence is not
\* pending. It runs DisplayFrame::onPresent on those whose fence is valid
\* and reports a signal time; an entry whose fence is null or invalid, or
\* whose signal time is invalid, is removed without being classified.
C34_FlushRemovesEveryNonPending ==
    [][IsSetSfPresentStep =>
          \A i \in 1..Len(QueueAtFlush) :
              LET e == QueueAtFlush[i]
              IN  /\ RemovedByFlush(e) <=> ~StillPendingAtFlush(e)
                  /\ ClassifiedByFlush(e)
                         <=> /\ RemovedByFlush(e)
                             /\ e.valid
                             /\ SignalAtFlush(e.frame) # SIGNAL_TIME_INVALID
      ]_vars

\* Witness for C34: setSfPresent was called with a null fence; its frame is
\* in the history, gone from the pending queue, and was never classified.
C34_Witness ==
    /\ timelineOp.op = "setSfPresent"
    /\ ~timelineOp.valid
    /\ ~undefinedBehaviour
    /\ mDisplayFrames # <<>>
    /\ LET id == mDisplayFrames[Len(mDisplayFrames)]
       IN  /\ id \notin PendingFrames(mPendingPresentFences)
           /\ displayFrame[id].onPresentCalls = 0

\* A thread inside the timing core that can take its next step: it is
\* unlocking, or the mutex it wants is free.
CoreCanStep(t) ==
    /\ corePc[t] # <<>>
    /\ Head(corePc[t]).kind = "lock" => coreLocks[Head(corePc[t]).mutex] = 0

\* A thread waiting for a mutex another thread holds.
CoreBlocked(t) == corePc[t] # <<>> /\ ~CoreCanStep(t)

\* The nested acquisitions the lock order allows: the FrameTimeline mutex
\* first, then the TokenManager mutex or a SurfaceFrame mutex.
CoreLockOrder ==
    {FrameTimelineLock} \X ({TokenManagerLock} \cup {SurfaceFrameLock(i) : i \in CoreSurfaceFrames})

\* C35: under any interleaving of the timing core's entry points on different
\* threads, a mutex is only ever acquired with another one held in the order
\* FrameTimeline mutex, then TokenManager mutex or a single SurfaceFrame
\* mutex, and whenever some thread is inside the core one of them can step:
\* the core cannot deadlock.
C35_CoreLockOrderNoDeadlock ==
    /\ coreNestings \subseteq CoreLockOrder
    /\ \A t \in CoreThreads : Cardinality(HeldBy(t) \ {FrameTimelineLock}) <= 1
    /\ (\E t \in CoreThreads : corePc[t] # <<>>) => \E t \in CoreThreads : CoreCanStep(t)

\* Every allowed nesting has happened, and right now one thread holds the
\* FrameTimeline mutex with a SurfaceFrame mutex inside it while a second
\* thread waits for the FrameTimeline mutex and a third for that SurfaceFrame.
C35_Witness ==
    /\ coreNestings = CoreLockOrder
    /\ \E t \in CoreThreads, i \in CoreSurfaceFrames :
        /\ HeldBy(t) = {FrameTimelineLock, SurfaceFrameLock(i)}
        /\ \E u \in CoreThreads :
            CoreBlocked(u) /\ Head(corePc[u]).mutex = FrameTimelineLock
        /\ \E u \in CoreThreads :
            CoreBlocked(u) /\ Head(corePc[u]).mutex = SurfaceFrameLock(i)

\* C36 as stated: mDiscardedFrames stays within 0..maxRegionSamplingSkips
\* under any interleaving of doSample and checkForStaleLuma, so sampling is
\* deferred for lack of time before the next vsync at most 10 times before a
\* sample is requested.
C36_AtMostTenDeferralsBeforeSample ==
    /\ mDiscardedFrames \in 0..maxRegionSamplingSkips
    /\ deferralsSinceSample <= maxRegionSamplingSkips

\* C36, amended: mDiscardedFrames stays within 0..maxRegionSamplingSkips, and
\* sampling is deferred for lack of time at most 10 times since the counter
\* was last set to 0, by a sample request or by checkForStaleLuma.
C36_AtMostTenDeferralsSinceReset ==
    /\ mDiscardedFrames \in 0..maxRegionSamplingSkips
    /\ deferralsSinceReset <= mDiscardedFrames

\* Sampling has been deferred ten times in a row and the counter is at its
\* limit, with a doSample about to run.
C36_Witness ==
    /\ mDiscardedFrames = maxRegionSamplingSkips
    /\ deferralsSinceReset = maxRegionSamplingSkips
    /\ samplingPc["content"] = "doSample"

\* A thread that wants a mutex another thread holds.
SamplingWants(t) ==
    IF samplingPc[t] \in {"doSample", "checkForStaleLuma"} THEN {ThreadControlMutex}
    ELSE IF samplingPc[t] \in {"stopVsyncListener", "startVsyncListener", "onVSyncEvent"}
    THEN {CallbackMutex}
    ELSE IF t = "main" /\ (samplingPc[t] = "lock" \/ (samplingPc[t] = "wait" /\ mSampleRequested))
    THEN {ThreadControlMutex}
    ELSE {}

SamplingBlocked(t) == \E m \in SamplingWants(t) : samplingLocks[m] \notin {NoThread, t}

\* A thread in the middle of a call that can take its next step.
SamplingCanStep(t) ==
    /\ samplingPc[t] \notin {"idle", "wait"} \/ SamplingWants(t) # {}
    /\ \A m \in SamplingWants(t) : samplingLocks[m] = NoThread

\* C37: the only nesting of the two mutexes ever used is mThreadControlMutex
\* then the callback's mutex, the vsync thread holds no mutex when it enters
\* doSample through notifySamplingOffset, and whenever a thread waits for a
\* mutex some thread can step: the threads cannot deadlock.
C37_SamplingLockOrderNoDeadlock ==
    /\ samplingNestings \subseteq {<<ThreadControlMutex, CallbackMutex>>}
    /\ samplingPc["vsync"] = "doSample" => SamplingHeldBy("vsync") = {}
    /\ (\E t \in SamplingThreads : SamplingBlocked(t)) => \E t \in SamplingThreads : SamplingCanStep(t)

\* The vsync thread has left onVSyncEvent's critical section and waits in
\* doSample for mThreadControlMutex, which the timer thread holds while it
\* is about to lock the callback's mutex, which is free.
C37_Witness ==
    /\ samplingPc["vsync"] = "doSample"
    /\ samplingPc["timer"] = "startVsyncListener"
    /\ samplingLocks[ThreadControlMutex] = "timer"
    /\ samplingLocks[CallbackMutex] = NoThread
    /\ <<ThreadControlMutex, CallbackMutex>> \in samplingNestings

\* The RegistrationWaiters created by registerForNotifications(name, cb)
\* that are registered with the backend.
WaitersStillRegistered(name, cb) ==
    {w \in 1..Len(createdWaiters) :
        createdWaiters[w] = [name |-> name, cb |-> cb] /\ <<name, w>> \in backendCallbacks}

\* C38: after unregisterForNotifications(name, cb) has returned OK, no
\* RegistrationWaiter created by registerForNotifications for that name and
\* callback is still registered with the backend, also when the callback had
\* been registered for the name more than once.
C38_UnregisterLeavesNoWaiter ==
    (shimOp.op = "unregisterForNotifications" /\ shimOp.status = NO_ERROR)
        => WaitersStillRegistered(shimOp.name, shimOp.cb) = {}

\* C39: when waitForService has returned after registering its waiter, by
\* the delivered binder, by a later getService that found the service or by
\* a later getService error, it has asked the backend once to unregister
\* that waiter, and the waiter is no longer registered unless the backend
\* refused.
C39_WaitForServiceUnregistersOnReturn ==
    (waitCall.pc = "returned" /\ waitCall.waiter # NoWaiter
            /\ waitCall.returnPath \in {"delivered", "retryFound", "retryError"})
        => /\ waitCall.unregisterCalls = 1
           /\ waitCall.unregistered => <<waitCall.name, waitCall.waiter>> \notin backendCallbacks

\* waitForService returned on a later getService error after its waiter was
\* registered, and the waiter is gone from the backend.
C39_Witness ==
    /\ waitCall.pc = "returned"
    /\ waitCall.returnPath = "retryError"
    /\ waitCall.waiter # NoWaiter
    /\ waitCall.unregistered
    /\ <<waitCall.name, waitCall.waiter>> \notin backendCallbacks

====
